---- MODULE Spec2Model ----
(***************************************************************************)
(* Model of exa's listing engine: the traversal controller Exa::run /      *)
(* Exa::print_dirs (src/exa.rs, with the older src/main.rs variant), the   *)
(* directory-handling options (src/options/dir_action.rs) and the file     *)
(* filter and sorter (src/options.rs).                                      *)
(***************************************************************************)
EXTENDS Integers, Sequences, FiniteSets, TLC

(***************************************************************************)
(* Bounds of the model.                                                    *)
(***************************************************************************)
\* longest command-line path list explored
MaxArgs == 2
\* largest --level value explored
MaxLevel == 3
\* longest file vector handed to the sorter in SpecSort
MaxSortLen == 3
\* most writes a failing sink accepts before it fails, in SpecPipe
MaxWrites == 3

\* Option<T>: None is the empty sequence, Some(x) the sequence of x alone
None == <<>>

Some(x) == <<x>>

Unwrap(o) == o[1]

(***************************************************************************)
(* Names are sequences of one-character strings, paths are sequences of    *)
(* names (the components of std::path::Path).                              *)
(***************************************************************************)
CurDir == <<".">>

n_a_txt  == <<"a", ".", "t", "x", "t">>
n_hidden == <<".", "h", "i", "d", "d", "e", "n">>
n_dir1   == <<"d", "i", "r", "1">>
n_secret == <<".", "s", "e", "c", "r", "e", "t">>
n_b_txt  == <<"b", ".", "t", "x", "t">>
n_top    == <<"t", "o", "p">>
n_mid    == <<"m", "i", "d">>
n_low    == <<"l", "o", "w">>
n_z      == <<"z">>
n_f2     == <<"f", "2">>
n_f10    == <<"f", "1", "0">>
n_hdir   == <<".", "h", "d">>
n_x      == <<"x">>
n_bad    == <<"b", "a", "d">>
n_locked == <<"l", "k">>
n_gone   == <<"g", "o", "n", "e">>

\* The characters of the names above, in code-point order.
Alphabet == <<".", "0", "1", "2", "a", "b", "c", "d", "e", "f", "g", "h", "i",
              "k", "l", "m", "n", "o", "p", "r", "s", "t", "x", "z">>

Code(c) == CHOOSE k \in 1..Len(Alphabet) : Alphabet[k] = c

IsDigit(c) == c \in {"0", "1", "2"}

(***************************************************************************)
(* The file system the run reads (the metadata accessor): a fixed tree,    *)
(* keyed by canonical path (the path without its "." components).          *)
(*   ./a.txt  ./.hidden  ./dir1/{b.txt,.secret}                            *)
(*   ./top/{f10, mid/{low/{z}}, .hd/{x}, bad, f2, lk/}                     *)
(* "bad" cannot be stat-ed; "lk" is a directory that cannot be opened;     *)
(* "gone" does not exist.                                                  *)
(***************************************************************************)
FileNode(sz, ino, mt, at, ct) ==
    [kind |-> "file", stat |-> "Ok", readable |-> TRUE, children |-> <<>>,
     size |-> sz, ino |-> ino, mtime |-> mt, atime |-> at, ctime |-> ct]

DirNode(ch, ino, mt) ==
    [kind |-> "dir", stat |-> "Ok", readable |-> TRUE, children |-> ch,
     size |-> 0, ino |-> ino, mtime |-> mt, atime |-> mt, ctime |-> mt]

Tree ==
    ( <<>>                        :> DirNode(<<n_top, n_hidden, n_dir1, n_a_txt>>, 1, 5)
   @@ <<n_a_txt>>                 :> FileNode(3, 2, 1, 2, 1)
   @@ <<n_hidden>>                :> FileNode(1, 3, 2, 2, 2)
   @@ <<n_dir1>>                  :> DirNode(<<n_b_txt, n_secret>>, 4, 3)
   @@ <<n_dir1, n_b_txt>>         :> FileNode(2, 5, 3, 1, 3)
   @@ <<n_dir1, n_secret>>        :> FileNode(2, 6, 1, 1, 1)
   @@ <<n_top>>                   :> DirNode(<<n_f10, n_mid, n_hdir, n_bad, n_f2, n_locked>>, 7, 4)
   @@ <<n_top, n_f10>>            :> FileNode(1, 8, 2, 3, 2)
   @@ <<n_top, n_f2>>             :> FileNode(1, 9, 2, 1, 3)
   @@ <<n_top, n_mid>>            :> DirNode(<<n_low>>, 10, 1)
   @@ <<n_top, n_mid, n_low>>     :> DirNode(<<n_z>>, 11, 1)
   @@ <<n_top, n_mid, n_low, n_z>> :> FileNode(4, 12, 1, 1, 1)
   @@ <<n_top, n_hdir>>           :> DirNode(<<n_x>>, 13, 2)
   @@ <<n_top, n_hdir, n_x>>      :> FileNode(1, 14, 1, 1, 1)
   @@ <<n_top, n_bad>>            :> [FileNode(0, 15, 0, 0, 0) EXCEPT !.stat = "PermissionDenied"]
   @@ <<n_top, n_locked>>         :> [DirNode(<<>>, 16, 2) EXCEPT !.readable = FALSE] )

\* Path::components() without Component::CurDir
Canon(path) == SelectSeq(path, LAMBDA c : c # CurDir)

\* The paths that may be named on the command line.
ArgPaths ==
    { <<n_a_txt>>, <<n_hidden>>, <<n_dir1>>, <<n_top>>, <<CurDir>>,
      <<n_top, n_mid>>, <<n_gone>>, <<n_top, n_locked>> }

(***************************************************************************)
(* fs::File: the record File::from_path builds from one stat call.         *)
(***************************************************************************)
RECURSIVE LastDot(_, _)
LastDot(name, k) ==
    IF k = 0 THEN 0
    ELSE IF name[k] = "." THEN k ELSE LastDot(name, k - 1)

\* the extension: what follows the last '.' of the name, if there is one
Ext(name) ==
    LET p == LastDot(name, Len(name))
    IN  IF p = 0 THEN None ELSE Some(SubSeq(name, p + 1, Len(name)))

FileName(path) == path[Len(path)]

MakeFile(path) ==
    LET n == Tree[Canon(path)]
    IN  [path |-> path, name |-> FileName(path), ext |-> Ext(FileName(path)),
         is_dir |-> (n.kind = "dir"),
         size |-> n.size, ino |-> n.ino,
         mtime |-> n.mtime, atime |-> n.atime, ctime |-> n.ctime]

\* File::from_path: Ok(file) or Err(kind)
from_path(path) ==
    IF Canon(path) \notin DOMAIN Tree THEN [ok |-> FALSE, err |-> "NotFound"]
    ELSE IF Tree[Canon(path)].stat # "Ok"
         THEN [ok |-> FALSE, err |-> Tree[Canon(path)].stat]
         ELSE [ok |-> TRUE, file |-> MakeFile(path)]

is_directory(f) == f.is_dir

is_dotfile(f) == Len(f.name) > 0 /\ f.name[1] = "."

\* File::to_dir: opening the directory may fail
to_dir(f) ==
    IF Tree[Canon(f.path)].readable
    THEN [ok |-> TRUE, dir |-> [path |-> f.path]]
    ELSE [ok |-> FALSE, err |-> "PermissionDenied"]

\* Dir::files: one Ok(file) or Err((path, e)) per directory entry, in
\* readdir order
DirFiles(dir) ==
    LET ch == Tree[Canon(dir.path)].children
    IN  [k \in 1..Len(ch) |->
            LET r == from_path(Append(dir.path, ch[k]))
            IN  IF r.ok THEN r
                ELSE [ok |-> FALSE, err |-> r.err, path |-> Append(dir.path, ch[k])]]

(***************************************************************************)
(* std::cmp::Ordering and the comparisons compare_files uses.              *)
(***************************************************************************)
IntCmp(a, b) == IF a < b THEN "Less" ELSE IF a > b THEN "Greater" ELSE "Equal"

\* str::cmp on two names: first differing character, then length
RECURSIVE StrCmpFrom(_, _, _)
StrCmpFrom(a, b, k) ==
    IF k > Len(a) /\ k > Len(b) THEN "Equal"
    ELSE IF k > Len(a) THEN "Less"
    ELSE IF k > Len(b) THEN "Greater"
    ELSE IF a[k] # b[k] THEN IntCmp(Code(a[k]), Code(b[k]))
    ELSE StrCmpFrom(a, b, k + 1)

StrCmp(a, b) == StrCmpFrom(a, b, 1)

\* Option<String>::cmp: None sorts before every Some
OptCmp(a, b) ==
    IF a = None /\ b = None THEN "Equal"
    ELSE IF a = None THEN "Less"
    ELSE IF b = None THEN "Greater"
    ELSE StrCmp(Unwrap(a), Unwrap(b))

\* the end of the digit run of s that starts at position k
RECURSIVE RunEnd(_, _)
RunEnd(s, k) ==
    IF k + 1 <= Len(s) /\ IsDigit(s[k + 1]) THEN RunEnd(s, k + 1) ELSE k

\* natord::compare: characters compare by code point, except that two digit
\* runs met at the same time compare as numbers (right-aligned: the longer
\* run is the larger) unless one starts with 0 (left-aligned: as text).
RECURSIVE NatCmpFrom(_, _, _, _)
NatCmpFrom(a, b, i, j) ==
    IF i > Len(a) /\ j > Len(b) THEN "Equal"
    ELSE IF i > Len(a) THEN "Less"
    ELSE IF j > Len(b) THEN "Greater"
    ELSE IF IsDigit(a[i]) /\ IsDigit(b[j])
    THEN LET ei == RunEnd(a, i)
             ej == RunEnd(b, j)
             ra == SubSeq(a, i, ei)
             rb == SubSeq(b, j, ej)
             r  == IF a[i] = "0" \/ b[j] = "0" THEN StrCmp(ra, rb)
                   ELSE IF Len(ra) # Len(rb) THEN IntCmp(Len(ra), Len(rb))
                   ELSE StrCmp(ra, rb)
         IN  IF r # "Equal" THEN r ELSE NatCmpFrom(a, b, ei + 1, ej + 1)
    ELSE IF a[i] # b[j] THEN IntCmp(Code(a[i]), Code(b[j]))
    ELSE NatCmpFrom(a, b, i + 1, j + 1)

NatCmp(a, b) == NatCmpFrom(a, b, 1, 1)

(***************************************************************************)
(* FileFilter (src/options.rs): the filter and sort of a file vector.      *)
(***************************************************************************)
SortFields ==
    {"Unsorted", "Name", "Extension", "Size", "FileInode",
     "ModifiedDate", "AccessedDate", "CreatedDate"}

FileFilters ==
    [list_dirs_first : BOOLEAN, reverse : BOOLEAN, show_invisibles : BOOLEAN,
     sort_field : SortFields]

\* the elements of a vector
Range(s) == {s[k] : k \in 1..Len(s)}

\* Vec::reverse
Reverse(s) == [k \in 1..Len(s) |-> s[Len(s) + 1 - k]]

\* slice::sort_by: the stable sort; the comparison closure is the function
\* cmp[a, b] on the elements. Each element is inserted behind the last
\* element that is not greater than it.
InsertSorted(t, x, cmp) ==
    LET le == {k \in 1..Len(t) : cmp[t[k], x] # "Greater"}
        p  == IF le = {} THEN 0 ELSE CHOOSE k \in le : \A m \in le : m <= k
    IN  SubSeq(t, 1, p) \o <<x>> \o SubSeq(t, p + 1, Len(t))

\* (the vector, the closure and each intermediate vector are bound as values,
\* so that each is computed once)
sort_by(s, cmp) ==
    LET Sorted(v, c) ==
            LET ins[k \in 0..Len(v)] ==
                    IF k = 0 THEN <<>>
                    ELSE CHOOSE r \in {InsertSorted(t, v[k], c) : t \in {ins[k - 1]}} : TRUE
            IN  ins[Len(v)]
    IN  CHOOSE r \in {Sorted(v, c) : v \in {s}, c \in {cmp}} : TRUE

compare_files(filter, a, b) ==
    CASE filter.sort_field = "Unsorted"     -> "Equal"
      [] filter.sort_field = "Name"         -> NatCmp(a.name, b.name)
      [] filter.sort_field = "Size"         -> IntCmp(a.size, b.size)
      [] filter.sort_field = "FileInode"    -> IntCmp(a.ino, b.ino)
      [] filter.sort_field = "ModifiedDate" -> IntCmp(a.mtime, b.mtime)
      [] filter.sort_field = "AccessedDate" -> IntCmp(a.atime, b.atime)
      [] filter.sort_field = "CreatedDate"  -> IntCmp(a.ctime, b.ctime)
      [] filter.sort_field = "Extension"    ->
            IF OptCmp(a.ext, b.ext) = "Equal" THEN NatCmp(a.name, b.name)
            ELSE OptCmp(a.ext, b.ext)

\* bool::cmp of b.is_directory() against a.is_directory(): false < true
DirsFirstCmp(a, b) ==
    IntCmp(IF is_directory(b) THEN 1 ELSE 0, IF is_directory(a) THEN 1 ELSE 0)

\* a slip: the dotfiles kept
filter_files_KeepAll(filter, files) == files

filter_files(filter, files) ==
    IF ~filter.show_invisibles
    THEN SelectSeq(files, LAMBDA f : ~is_dotfile(f))
    ELSE files

\* a slip: a sort that is not stable (equal entries come out reversed)
PrimarySort_Unstable(filter, files) ==
    Reverse(sort_by(files, [a, b \in Range(files) |-> compare_files(filter, b, a)]))

PrimarySort(filter, files) ==
    sort_by(files, [a, b \in Range(files) |-> compare_files(filter, a, b)])

ReverseStep(filter, files) ==
    IF filter.reverse THEN Reverse(files) ELSE files

\* a slip: a directories-first pass that is not stable (each partition comes
\* out reversed)
DirsFirstStep_Unstable(filter, files) ==
    IF filter.list_dirs_first
    THEN Reverse(sort_by(files, [a, b \in Range(files) |-> DirsFirstCmp(b, a)]))
    ELSE files

DirsFirstStep(filter, files) ==
    IF filter.list_dirs_first
    THEN sort_by(files, [a, b \in Range(files) |-> DirsFirstCmp(a, b)])
    ELSE files

\* a slip: reverse done by a reversed comparator instead of Vec::reverse
sort_files_ReversedCmp(filter, files) ==
    DirsFirstStep(filter,
        IF filter.reverse
        THEN sort_by(files, [a, b \in Range(files) |-> compare_files(filter, b, a)])
        ELSE PrimarySort(filter, files))

\* a slip: the reversal moved behind the directories-first pass
sort_files_ReverseLast(filter, files) ==
    ReverseStep(filter, DirsFirstStep(filter, PrimarySort(filter, files)))

sort_files(filter, files) ==
    DirsFirstStep(filter, ReverseStep(filter, PrimarySort(filter, files)))

\* FileFilter::filter_child_files and filter_argument_files of the modular
\* options::filter: children lose their dotfiles, arguments are kept.
filter_child_files(filter, files) == filter_files(filter, files)

filter_argument_files(filter, files) == files

(***************************************************************************)
(* DirAction and RecurseOptions (src/options/dir_action.rs).               *)
(***************************************************************************)
Levels == {None} \cup {Some(n) : n \in 0..MaxLevel}

DirActions ==
    {[kind |-> "AsFile"], [kind |-> "List"]}
        \cup [kind : {"Recurse"}, tree : BOOLEAN, max_depth : Levels]

recurse_options(da) ==
    IF da.kind = "Recurse" THEN Some([tree |-> da.tree, max_depth |-> da.max_depth])
    ELSE None

\* a slip: tree mode forgotten
treat_dirs_as_files_NoTree(da) == da.kind = "AsFile"

treat_dirs_as_files(da) ==
    CASE da.kind = "AsFile"  -> TRUE
      [] da.kind = "Recurse" -> da.tree
      [] OTHER               -> FALSE

\* a slip: the comparison off by one
is_too_deep_Strict(opts, depth) ==
    IF opts.max_depth = None THEN FALSE ELSE Unwrap(opts.max_depth) < depth

is_too_deep(opts, depth) ==
    IF opts.max_depth = None THEN FALSE ELSE Unwrap(opts.max_depth) <= depth

\* a slip: the + 1 forgotten
Depth_NoPlusOne(dir) == Len(Canon(dir.path))

\* dir.path.components().filter(|&c| c != Component::CurDir).count() + 1
Depth(dir) == Len(Canon(dir.path)) + 1

(***************************************************************************)
(* Columns of the detail views (src/output/column.rs) and their deduction  *)
(* from the parsed arguments (src/output/column.rs, src/options/view.rs;   *)
(* for the older program src/options.rs).                                  *)
(***************************************************************************)
\* most values one --time option carries
MaxTimeWords == 2

\* the words --time accepts: FromStr for TimeTypes, and the variants of the
\* older TimeFields
TimeWords == {"mod", "modified", "acc", "accessed", "cr", "created"}

TimeFields == {"Modified", "Accessed", "Created"}

\* Column: its kind, and the SizeFormat or TimeType it carries ("" if none)
Column(kind, arg) == [col |-> kind, arg |-> arg]

TimeTypes_default == [accessed |-> FALSE, modified |-> TRUE, created |-> FALSE]

SizeFormat_default == "DecimalBytes"

\* #[derive(Default)] of Columns
Columns_default ==
    [size_format |-> SizeFormat_default, time_types |-> TimeTypes_default,
     inode |-> FALSE, links |-> FALSE, blocks |-> FALSE, group |-> FALSE,
     git |-> FALSE]

\* impl FromStr for TimeTypes
from_str(word) ==
    CASE word \in {"mod", "modified"} ->
            [accessed |-> FALSE, modified |-> TRUE, created |-> FALSE]
      [] word \in {"acc", "accessed"} ->
            [accessed |-> TRUE, modified |-> FALSE, created |-> FALSE]
      [] word \in {"cr", "created"} ->
            [accessed |-> FALSE, modified |-> FALSE, created |-> TRUE]

\* impl From<&ArgMatches> for TimeTypes: value_of("time") is the first value
TimeTypes_from(matches) ==
    IF matches.time # <<>> THEN from_str(matches.time[1])
    ELSE [accessed |-> matches.accessed, modified |-> matches.modified,
          created |-> matches.created]

\* TimeTypes::deduce of the older program: every value of --time sets its
\* field, and nothing set at all means the default
TimeTypes_deduce(matches) ==
    LET given(flag, field) ==
            flag \/ \E k \in 1..Len(matches.time) : matches.time[k] = field
        modified == given(matches.modified, "Modified")
        created  == given(matches.created, "Created")
        accessed == given(matches.accessed, "Accessed")
    IN  IF modified \/ created \/ accessed
        THEN [accessed |-> accessed, modified |-> modified, created |-> created]
        ELSE TimeTypes_default

\* impl From<&ArgMatches> for SizeFormat (SizeFormat::deduce is the same)
SizeFormat_from(matches) ==
    IF matches.binary THEN "BinaryBytes"
    ELSE IF matches.bytes THEN "JustBytes"
    ELSE "DecimalBytes"

\* impl From<&ArgMatches> for Columns; git_feature is cfg!(feature="git")
Columns_from(matches, git_feature) ==
    [size_format |-> SizeFormat_from(matches),
     time_types  |-> TimeTypes_from(matches),
     inode  |-> matches.inode,
     links  |-> matches.links,
     blocks |-> matches.blocks,
     group  |-> matches.group,
     git    |-> git_feature /\ matches.git]

\* Columns::deduce of the older program
Columns_deduce(matches, git_feature) ==
    [size_format |-> SizeFormat_from(matches),
     time_types  |-> TimeTypes_deduce(matches),
     inode  |-> matches.inode,
     links  |-> matches.links,
     blocks |-> matches.blocks,
     group  |-> matches.group,
     git    |-> git_feature /\ matches.git]

should_scan_for_git(columns) == columns.git

\* Dir::has_git_repo: the scan to_dir was asked for found a repository
has_git_repo(d) == d.git

\* a slip: the git column pushed before the timestamps
for_dir_GitEarly(columns, dir, git_feature) ==
    (IF columns.inode THEN <<Column("Inode", "")>> ELSE <<>>)
    \o <<Column("Permissions", "")>>
    \o (IF columns.links THEN <<Column("HardLinks", "")>> ELSE <<>>)
    \o <<Column("FileSize", columns.size_format)>>
    \o (IF columns.blocks THEN <<Column("Blocks", "")>> ELSE <<>>)
    \o <<Column("User", "")>>
    \o (IF columns.group THEN <<Column("Group", "")>> ELSE <<>>)
    \o (IF git_feature /\ dir # None /\ should_scan_for_git(columns)
            /\ has_git_repo(Unwrap(dir))
        THEN <<Column("GitStatus", "")>> ELSE <<>>)
    \o (IF columns.time_types.modified THEN <<Column("Timestamp", "Modified")>> ELSE <<>>)
    \o (IF columns.time_types.created THEN <<Column("Timestamp", "Created")>> ELSE <<>>)
    \o (IF columns.time_types.accessed THEN <<Column("Timestamp", "Accessed")>> ELSE <<>>)

\* a slip: the git column pushed although there is no directory
for_dir_GitAlways(columns, dir, git_feature) ==
    (IF columns.inode THEN <<Column("Inode", "")>> ELSE <<>>)
    \o <<Column("Permissions", "")>>
    \o (IF columns.links THEN <<Column("HardLinks", "")>> ELSE <<>>)
    \o <<Column("FileSize", columns.size_format)>>
    \o (IF columns.blocks THEN <<Column("Blocks", "")>> ELSE <<>>)
    \o <<Column("User", "")>>
    \o (IF columns.group THEN <<Column("Group", "")>> ELSE <<>>)
    \o (IF columns.time_types.modified THEN <<Column("Timestamp", "Modified")>> ELSE <<>>)
    \o (IF columns.time_types.created THEN <<Column("Timestamp", "Created")>> ELSE <<>>)
    \o (IF columns.time_types.accessed THEN <<Column("Timestamp", "Accessed")>> ELSE <<>>)
    \o (IF git_feature /\ should_scan_for_git(columns)
        THEN <<Column("GitStatus", "")>> ELSE <<>>)

\* Columns::for_dir
for_dir(columns, dir, git_feature) ==
    (IF columns.inode THEN <<Column("Inode", "")>> ELSE <<>>)
    \o <<Column("Permissions", "")>>
    \o (IF columns.links THEN <<Column("HardLinks", "")>> ELSE <<>>)
    \o <<Column("FileSize", columns.size_format)>>
    \o (IF columns.blocks THEN <<Column("Blocks", "")>> ELSE <<>>)
    \o <<Column("User", "")>>
    \o (IF columns.group THEN <<Column("Group", "")>> ELSE <<>>)
    \o (IF columns.time_types.modified THEN <<Column("Timestamp", "Modified")>> ELSE <<>>)
    \o (IF columns.time_types.created THEN <<Column("Timestamp", "Created")>> ELSE <<>>)
    \o (IF columns.time_types.accessed THEN <<Column("Timestamp", "Accessed")>> ELSE <<>>)
    \o (IF git_feature /\ dir # None /\ should_scan_for_git(columns)
            /\ has_git_repo(Unwrap(dir))
        THEN <<Column("GitStatus", "")>> ELSE <<>>)

\* a slip: the git column aligned as text
alignment_GitLeft(column) ==
    IF column.col \in {"FileSize", "HardLinks", "Inode", "Blocks"}
    THEN "Right" ELSE "Left"

\* Column::alignment
alignment(column) ==
    CASE column.col = "FileSize"  -> "Right"
      [] column.col = "HardLinks" -> "Right"
      [] column.col = "Inode"     -> "Right"
      [] column.col = "Blocks"    -> "Right"
      [] column.col = "GitStatus" -> "Right"
      [] OTHER                    -> "Left"

(***************************************************************************)
(* Misfire (src/options/misfire.rs; for the older program src/options.rs). *)
(***************************************************************************)
\* the variants of Misfire
Misfires ==
    {"Help", "Version", "Conflict", "Useless", "Useless2", "FailedParse",
     "FailedGlobPattern"}

\* Misfire::error_code
error_code(misfire) == IF misfire = "Help" THEN 2 ELSE 3

\* Misfire::error_code of the older program (not on Windows)
error_code_older(misfire) == 1

\* Misfire::use_stderr of the older program: ClapError::use_stderr is false
\* for the help and the version text, true for every error
use_stderr(misfire) == misfire \notin {"Help", "Version"}

\* Misfire::exit of the older program, its exit status
exit_older(misfire) == IF use_stderr(misfire) THEN error_code_older(misfire) ELSE 0

\* the exit status of a thread that panicked
PanicStatus == 101

(***************************************************************************)
(* The deduction of the options from the parsed arguments                  *)
(* (src/options/mod.rs, dir_action.rs, view.rs; for the older program      *)
(* src/options.rs).                                                        *)
(***************************************************************************)
\* Result<T, Misfire>
Ok(x) == [ok |-> TRUE, value |-> x]

Err(misfire) == [ok |-> FALSE, misfire |-> misfire]

\* str::parse::<usize> of a text over the digits of Alphabet: an error on
\* the empty text and on any other character
RECURSIVE DigitsValue(_)
DigitsValue(text) ==
    IF text = <<>> THEN 0
    ELSE DigitsValue(SubSeq(text, 1, Len(text) - 1)) * 10
            + (Code(text[Len(text)]) - Code("0"))

parse(text) ==
    IF text # <<>> /\ \A k \in 1..Len(text) : IsDigit(text[k])
    THEN Some(DigitsValue(text))
    ELSE None

\* RecurseOptions::deduce
RecurseOptions_deduce(matches, tree) ==
    IF matches.level # None
    THEN IF parse(Unwrap(matches.level)) # None
         THEN Ok([kind |-> "Recurse", tree |-> tree,
                  max_depth |-> parse(Unwrap(matches.level))])
         ELSE Err("FailedParse")
    ELSE Ok([kind |-> "Recurse", tree |-> tree, max_depth |-> None])

\* DirAction::deduce
DirAction_deduce(matches) ==
    IF matches.recurse THEN RecurseOptions_deduce(matches, FALSE)
    ELSE IF matches.list_dirs THEN Ok([kind |-> "AsFile"])
    ELSE IF matches.tree THEN RecurseOptions_deduce(matches, TRUE)
    ELSE Ok([kind |-> "List"])

\* DirAction::deduce of the older program; value_t_or_exit! ends the process
\* (as a usage error) when --level is missing or is no number
DirAction_deduce_older(matches) ==
    IF matches.tree \/ (matches.recurse /\ ~(matches.list_dirs /\ matches.tree))
    THEN IF matches.level # None /\ parse(Unwrap(matches.level)) # None
         THEN Ok([kind |-> "Recurse", tree |-> matches.tree,
                  max_depth |-> parse(Unwrap(matches.level))])
         ELSE [ok |-> FALSE, exited |-> error_code_older("Conflict")]
    ELSE IF ~matches.recurse /\ matches.list_dirs THEN Ok([kind |-> "AsFile"])
    ELSE Ok([kind |-> "List"])

\* FileFilter::deduce
FileFilter_deduce(matches) ==
    [list_dirs_first |-> matches.group_directories_first,
     reverse         |-> matches.reverse,
     show_invisibles |-> matches.all,
     sort_field      |-> IF matches.sort # None THEN Unwrap(matches.sort) ELSE "Name"]

\* TerminalWidth::deduce: COLUMNS first, then the terminal
TerminalWidth_deduce(env) ==
    IF env.COLUMNS # None
    THEN IF parse(Unwrap(env.COLUMNS)) # None
         THEN Ok([kind |-> "Set", width |-> parse(Unwrap(env.COLUMNS))])
         ELSE Err("FailedParse")
    ELSE IF env.dimensions # None
         THEN Ok([kind |-> "Terminal", width |-> env.dimensions])
         ELSE Ok([kind |-> "Unset", width |-> None])

\* TerminalWidth::as_ref
as_ref(term_width) == term_width.width

\* impl FromStr for TerminalColours
TerminalColours_from_str(word) ==
    CASE word = "always"                -> "Always"
      [] word \in {"auto", "automatic"} -> "Automatic"
      [] word = "never"                 -> "Never"

\* Colours::colourful(scale) and Colours::plain()
colourful(scale) == [colourful |-> TRUE, scale |-> scale]

plain == [colourful |-> FALSE, scale |-> FALSE]

\* the closure long of View::deduce
long_options(matches, env, git_feature, filter, dir_action, older) ==
    LET term_colours == TerminalColours_from_str(matches.color)
    IN  [kind    |-> "Details",
         columns |-> Some(IF older THEN Columns_deduce(matches, git_feature)
                          ELSE Columns_from(matches, git_feature)),
         header  |-> matches.header,
         recurse |-> recurse_options(dir_action),
         filter  |-> filter,
         xattr   |-> matches.extended,
         colours |-> CASE term_colours = "Always" -> colourful(matches.color_scale)
                       [] term_colours = "Never"  -> plain
                       [] OTHER -> IF env.dimensions # None
                                   THEN colourful(matches.color_scale) ELSE plain]

\* the closure details of View::deduce: the tree view without --long
details(matches, filter, dir_action, colours) ==
    [kind |-> "Details", columns |-> None, header |-> FALSE,
     recurse |-> recurse_options(dir_action), filter |-> filter, xattr |-> FALSE,
     colours |-> colours]

\* a slip: no fallback, a grid made although there is no width
other_options_scan_NoFallback(matches, env, filter, dir_action) ==
    LET term_width == TerminalWidth_deduce(env)
    IN  IF ~term_width.ok THEN term_width
        ELSE IF matches.oneline THEN Ok([kind |-> "Lines", colours |-> plain])
        ELSE IF matches.tree THEN Ok(details(matches, filter, dir_action, plain))
        ELSE Ok([kind |-> "Grid", across |-> matches.across,
                 console_width |-> IF as_ref(term_width.value) # None
                                   THEN Unwrap(as_ref(term_width.value)) ELSE 0,
                 colours |-> plain])

\* the closure other_options_scan of View::deduce
other_options_scan(matches, env, filter, dir_action) ==
    LET term_colours == TerminalColours_from_str(matches.color)
        term_width   == TerminalWidth_deduce(env)
    IN  IF ~term_width.ok THEN term_width
        ELSE IF as_ref(term_width.value) # None
        THEN LET colours == IF term_colours = "Never" THEN plain
                            ELSE colourful(matches.color_scale)
             IN  IF matches.oneline THEN Ok([kind |-> "Lines", colours |-> colours])
                 ELSE IF matches.tree
                 THEN Ok(details(matches, filter, dir_action, colours))
                 ELSE Ok([kind |-> "Grid", across |-> matches.across,
                          console_width |-> Unwrap(as_ref(term_width.value)),
                          colours |-> colours])
        ELSE LET colours == IF term_colours = "Always"
                            THEN colourful(matches.color_scale) ELSE plain
             IN  IF matches.tree
                 THEN Ok(details(matches, filter, dir_action, colours))
                 ELSE Ok([kind |-> "Lines", colours |-> colours])

\* a slip: --long with --grid and no grid falls back to the long view
View_deduce_DetailsFallback(matches, env, git_feature, filter, dir_action, older) ==
    LET scan == other_options_scan(matches, env, filter, dir_action)
    IN  IF matches.long
        THEN IF matches.grid /\ scan.ok /\ scan.value.kind = "Grid"
             THEN Ok([kind |-> "GridDetails", grid |-> scan.value,
                      details |-> long_options(matches, env, git_feature, filter,
                                               dir_action, older)])
             ELSE Ok(long_options(matches, env, git_feature, filter, dir_action, older))
        ELSE scan

\* View::deduce. With --long and --grid an error of other_options_scan runs
\* into unreachable!() (the older program returns it).
View_deduce(matches, env, git_feature, filter, dir_action, older) ==
    LET scan == other_options_scan(matches, env, filter, dir_action)
    IN  IF matches.long
        THEN IF matches.grid
             THEN IF scan.ok /\ scan.value.kind = "Grid"
                  THEN Ok([kind |-> "GridDetails", grid |-> scan.value,
                           details |-> long_options(matches, env, git_feature, filter,
                                                    dir_action, older)])
                  ELSE IF scan.ok THEN scan
                  ELSE IF older THEN scan
                  ELSE [ok |-> FALSE, panicked |-> TRUE]
             ELSE Ok(long_options(matches, env, git_feature, filter, dir_action, older))
        ELSE scan

\* Options::from_matches: the options and the view, or what came instead
from_matches(matches, env, git_feature) ==
    LET dir_action == DirAction_deduce(matches)
        filter     == FileFilter_deduce(matches)
    IN  IF ~dir_action.ok THEN dir_action
        ELSE LET view == View_deduce(matches, env, git_feature, filter,
                                     dir_action.value, FALSE)
             IN  IF ~view.ok THEN view
                 ELSE Ok([dir_action |-> dir_action.value, filter |-> filter,
                          paths |-> matches.paths, view |-> view.value])

\* Options::deduce and Exa::new of the older program
Options_deduce(matches, env, git_feature) ==
    LET dir_action == DirAction_deduce_older(matches)
        filter     == FileFilter_deduce(matches)
    IN  IF ~dir_action.ok THEN dir_action
        ELSE LET view == View_deduce(matches, env, git_feature, filter,
                                     dir_action.value, TRUE)
             IN  IF ~view.ok THEN view
                 ELSE Ok([dir_action |-> dir_action.value, filter |-> filter,
                          paths |-> matches.paths, view |-> view.value])

(***************************************************************************)
(* The grid engine (the Grid view's packing): for a batch of entry widths  *)
(* and a terminal width, the number of columns to lay the entries out in.  *)
(***************************************************************************)
\* most entries of a batch, and the widest terminal
MaxEntries == 5

MaxTerm == 14

\* the display widths an entry may have
EntryWidths == {1, 2, 5}

\* the fixed gap between columns
GridGap == 2

\* r = ceil(N / c)
Rows(n, c) == (n + c - 1) \div c

\* the column of the i-th entry of n in c columns: top to bottom and then
\* across, or row by row when across is set
ColumnOf(i, n, c, across) ==
    IF across THEN ((i - 1) % c) + 1 ELSE ((i - 1) \div Rows(n, c)) + 1

MaxOf(S) == IF S = {} THEN 0 ELSE CHOOSE m \in S : \A x \in S : x <= m

\* the width of a column: its widest entry plus the gap
ColumnWidth(widths, c, across, col) ==
    MaxOf({widths[i] : i \in {j \in 1..Len(widths) :
                                ColumnOf(j, Len(widths), c, across) = col}})
        + GridGap

RECURSIVE SumOfColumns(_, _, _, _)
SumOfColumns(widths, c, across, col) ==
    IF col = 0 THEN 0
    ELSE ColumnWidth(widths, c, across, col) + SumOfColumns(widths, c, across, col - 1)

\* a candidate is feasible if the sum of its column widths does not exceed
\* the terminal width
Feasible(widths, console_width, c, across) ==
    SumOfColumns(widths, c, across, c) <= console_width

\* the search from the largest candidate downward: the first feasible
\* count, 0 when there is none
RECURSIVE ScanDown(_, _, _, _)
ScanDown(widths, console_width, across, c) ==
    IF c = 0 THEN 0
    ELSE IF Feasible(widths, console_width, c, across) THEN c
    ELSE ScanDown(widths, console_width, across, c - 1)

\* the search from 1 upward that stops at the first infeasible count
RECURSIVE ScanUp(_, _, _, _)
ScanUp(widths, console_width, across, c) ==
    IF c > Len(widths) \/ ~Feasible(widths, console_width, c, across) THEN c - 1
    ELSE ScanUp(widths, console_width, across, c + 1)

\* a slip: the gaps are left out of the test
fit_into_width_NoGap(widths, console_width, across) ==
    LET c == ScanDown(widths, console_width + Len(widths) * GridGap, across,
                      Len(widths))
    IN  IF c = 0 THEN [kind |-> "Lines"]
        ELSE [kind |-> "Grid", columns |-> c, rows |-> Rows(Len(widths), c)]

\* a slip: the search goes upward and stops at the first count that does
\* not fit
fit_into_width_Upward(widths, console_width, across) ==
    LET c == ScanUp(widths, console_width, across, 1)
    IN  IF c = 0 THEN [kind |-> "Lines"]
        ELSE [kind |-> "Grid", columns |-> c, rows |-> Rows(Len(widths), c)]

\* the engine: the largest feasible number of columns, or one entry per
\* line when not even one column fits
fit_into_width(widths, console_width, across) ==
    LET c == ScanDown(widths, console_width, across, Len(widths))
    IN  IF c = 0 THEN [kind |-> "Lines"]
        ELSE [kind |-> "Grid", columns |-> c, rows |-> Rows(Len(widths), c)]

(***************************************************************************)
(* The state of one run of the program.                                    *)
(*   options   the parsed options: dir_action, filter, paths               *)
(*   legacy    TRUE for the older controller of src/main.rs                *)
(*   sink      how many writes the output and the diagnostic sink accept   *)
(*             before they fail (None: all), and the error kind they give  *)
(*   pc        "resolve", "files", "dirs", "exit", "done"                  *)
(*   idx       the next command-line path to resolve                       *)
(*   files, dirs   the two batches Exa::run collects                       *)
(*   stack     the active calls of print_dirs, innermost first             *)
(*   io        what was written: out (the writer), err (stderr), and fail, *)
(*             the first write error (None while every write succeeded)    *)
(*   exit_code the process exit status (None while running)                *)
(*   sorter    a file vector on its way through filter_child_files and     *)
(*             sort_files: the filter, the vector before (input), after    *)
(*             the primary sort_by (primary) and at the end (output)       *)
(*   detail    the column set of a detail view on its way from the parsed  *)
(*             arguments (matches) through Columns::from (columns) to      *)
(*             Columns::for_dir for one directory context (dir, resolved)  *)
(*             and the alignment the table gives each column (aligns)      *)
(*   startup   what main has before the run: what the argument layer       *)
(*             handed over (cli, matches), the environment (env) and the   *)
(*             outcome of Exa::new (result)                                *)
(*   packing   a batch of entries on its way through the grid engine: the  *)
(*             display widths (widths), the terminal width, the across     *)
(*             flag and what the engine selected (result)                  *)
(***************************************************************************)
VARIABLES options, legacy, sink, pc, idx, files, dirs, stack, io, exit_code,
          sorter, detail, startup, packing

vars == <<options, legacy, sink, pc, idx, files, dirs, stack, io, exit_code,
          sorter, detail, startup, packing>>

Gap == [t |-> "gap"]

Heading(dir) == [t |-> "heading", path |-> dir.path]

Block(dir, fs) ==
    [t |-> "files", dir |-> IF dir = None THEN None ELSE Some(Unwrap(dir).path),
     files |-> [k \in 1..Len(fs) |-> fs[k].path]]

Diag(path, e) == [t |-> "error", path |-> path, err |-> e]

\* write!(self.writer, ..): appended unless the sink refuses; after the first
\* failure try! has returned and nothing more is written
WriteOut(w, item) ==
    IF w.fail # None THEN w
    ELSE IF sink.out_limit # None /\ Len(w.out) >= Unwrap(sink.out_limit)
         THEN [w EXCEPT !.fail = Some([on |-> "writer", kind |-> sink.kind])]
         ELSE [w EXCEPT !.out = Append(@, item)]

\* writeln!(stderr(), ..)
WriteStderr(w, item) ==
    IF w.fail # None THEN w
    ELSE IF sink.err_limit # None /\ Len(w.err) >= Unwrap(sink.err_limit)
         THEN [w EXCEPT !.fail = Some([on |-> "stderr", kind |-> sink.kind])]
         ELSE [w EXCEPT !.err = Append(@, item)]

\* the diagnostic of a path: writeln!(stderr(), ..); the older controller
\* println!s it
WriteErr(w, item) ==
    IF legacy THEN WriteOut(w, item) ELSE WriteStderr(w, item)

RECURSIVE WriteErrs(_, _)
WriteErrs(w, items) ==
    IF items = <<>> THEN w ELSE WriteErrs(WriteErr(w, Head(items)), Tail(items))

\* Exa::print_files: the view writes the batch, unless it is empty
print_files(w, dir, fs) ==
    IF fs # <<>> THEN WriteOut(w, Block(dir, fs)) ELSE w

Sinks == [out_limit : {None}, err_limit : {None}, kind : {"BrokenPipe"}]

ArgLists == UNION {[1..n -> ArgPaths] : n \in 0..MaxArgs}

\* the filter configurations the traversal is run under
RunFilters ==
    [list_dirs_first : BOOLEAN, reverse : BOOLEAN, show_invisibles : BOOLEAN,
     sort_field : {"Name"}]

SorterIdle ==
    [pc |-> "idle", filter |-> [list_dirs_first |-> FALSE, reverse |-> FALSE,
                                show_invisibles |-> FALSE, sort_field |-> "Name"],
     input |-> <<>>, primary |-> <<>>, output |-> <<>>]

\* no detail view is being set up
DetailIdle ==
    [pc |-> "idle", git_feature |-> FALSE,
     matches |-> [inode |-> FALSE, links |-> FALSE, blocks |-> FALSE,
                  group |-> FALSE, git |-> FALSE, modified |-> FALSE,
                  created |-> FALSE, accessed |-> FALSE, binary |-> FALSE,
                  bytes |-> FALSE, time |-> <<>>],
     columns |-> Columns_default, dir |-> None, resolved |-> <<>>,
     aligns |-> <<>>]

\* the parsed arguments with no option given and the default path
NoMatches ==
    [long |-> FALSE, grid |-> FALSE, oneline |-> FALSE, tree |-> FALSE,
     across |-> FALSE, recurse |-> FALSE, list_dirs |-> FALSE, level |-> None,
     color |-> "auto", color_scale |-> FALSE, header |-> FALSE, extended |-> FALSE,
     all |-> FALSE, reverse |-> FALSE, group_directories_first |-> FALSE,
     sort |-> None, paths |-> <<(<<CurDir>>)>>,
     inode |-> FALSE, links |-> FALSE, blocks |-> FALSE, group |-> FALSE,
     git |-> FALSE, modified |-> FALSE, created |-> FALSE, accessed |-> FALSE,
     binary |-> FALSE, bytes |-> FALSE, time |-> <<>>]

\* the options were handed to the run as they are
StartupIdle ==
    [cli |-> "Matches", matches |-> NoMatches,
     env |-> [COLUMNS |-> None, dimensions |-> None], git_feature |-> FALSE,
     result |-> None]

\* the grid engine has nothing to pack
PackingIdle ==
    [pc |-> "idle", widths |-> <<>>, console_width |-> 0, across |-> FALSE,
     result |-> None]

InitRun ==
    /\ sorter = SorterIdle
    /\ packing = PackingIdle
    /\ detail = DetailIdle
    /\ startup = StartupIdle
    /\ pc = "resolve"
    /\ idx = 1
    /\ files = <<>>
    /\ dirs = <<>>
    /\ stack = <<>>
    /\ io = [out |-> <<>>, err |-> <<>>, fail |-> None]
    /\ exit_code = None

Init ==
    /\ options \in [dir_action : DirActions, filter : RunFilters, paths : ArgLists]
    /\ legacy = FALSE
    /\ sink \in Sinks
    /\ InitRun

(***************************************************************************)
(* Exa::run, first half: one iteration of the loop over the paths.         *)
(***************************************************************************)
\* a slip: a path that does not resolve ends the run
AfterPath_Abort(resolved, w) ==
    IF w.fail # None \/ ~resolved THEN "exit" ELSE "resolve"

\* where the loop goes after one path: on to the next path, whether or not
\* this one resolved, unless writing its diagnostic failed
AfterPath(resolved, w) == IF w.fail # None THEN "exit" ELSE "resolve"

ResolveArg ==
    /\ pc = "resolve"
    /\ idx <= Len(options.paths)
    /\ LET file_name == options.paths[idx]
           r == from_path(file_name)
           asDir == r.ok /\ is_directory(r.file)
                         /\ ~treat_dirs_as_files(options.dir_action)
           d == to_dir(r.file)
           io1 == IF ~r.ok THEN WriteErr(io, Diag(file_name, r.err))
                  ELSE IF asDir /\ ~d.ok THEN WriteErr(io, Diag(file_name, d.err))
                  ELSE io
       IN  /\ io' = io1
           /\ dirs' = IF asDir /\ d.ok THEN Append(dirs, d.dir) ELSE dirs
           /\ files' = IF r.ok /\ ~asDir THEN Append(files, r.file) ELSE files
           /\ pc' = AfterPath(r.ok /\ (asDir => d.ok), io1)
    /\ idx' = idx + 1
    /\ UNCHANGED <<packing, startup, detail, sorter, options, legacy, sink, stack, exit_code>>

(***************************************************************************)
(* Exa::run, second half: the heading decision, the file batch, and the    *)
(* call of print_dirs on the named directories.                            *)
(***************************************************************************)
no_files(fs) == Len(fs) = 1

is_only_dir(ds, fs) == Len(ds) = 1 /\ no_files(fs)

no_files_legacy(fs) == fs = <<>>

is_only_dir_legacy(ds, fs) == Len(ds) = 1

Frame(ds, first, only) == [dir_files |-> ds, first |-> first, is_only_dir |-> only]

EmitFiles ==
    /\ pc = "resolve"
    /\ idx > Len(options.paths)
    /\ LET nf   == IF legacy THEN no_files_legacy(files) ELSE no_files(files)
           only == IF legacy THEN is_only_dir_legacy(dirs, files)
                   ELSE is_only_dir(dirs, files)
           batch == IF legacy THEN files
                    ELSE filter_argument_files(options.filter, files)
           io1 == print_files(io, None, batch)
       IN  /\ io' = io1
           /\ stack' = IF io1.fail # None THEN <<>> ELSE <<Frame(dirs, nf, only)>>
           /\ pc' = IF io1.fail # None THEN "exit" ELSE "dirs"
    /\ UNCHANGED <<packing, startup, detail, sorter, options, legacy, sink, idx, files, dirs, exit_code>>

(***************************************************************************)
(* Exa::print_dirs: one iteration of its loop, for the next directory of   *)
(* the innermost call.                                                     *)
(***************************************************************************)
RECURSIVE UntilError(_)
UntilError(es) ==
    IF es = <<>> \/ ~Head(es).ok THEN <<>>
    ELSE <<Head(es).file>> \o UntilError(Tail(es))

\* an enumeration that gives up at the first child it cannot stat
OkChildren_StopAtError(dir) == UntilError(DirFiles(dir))

\* the children that could be stat-ed, in readdir order
OkChildren(dir) ==
    LET es == DirFiles(dir)
        ok == SelectSeq(es, LAMBDA e : e.ok)
    IN  [k \in 1..Len(ok) |-> ok[k].file]

\* the diagnostics of the children that could not
ChildErrors(dir) ==
    LET es == DirFiles(dir)
        bad == SelectSeq(es, LAMBDA e : ~e.ok)
    IN  [k \in 1..Len(bad) |-> [t |-> "child_error", path |-> bad[k].path, err |-> bad[k].err]]

\* what the view is handed for a directory
Children(dir) ==
    CHOOSE r \in {sort_files(options.filter, v) :
                     v \in {filter_child_files(options.filter, OkChildren(dir))}} : TRUE

\* a slip: the depth limit forgotten
Descends_Unbounded(da, dir) ==
    /\ recurse_options(da) # None
    /\ ~Unwrap(recurse_options(da)).tree

\* whether print_dirs goes on into the child directories of dir
Descends(da, dir) ==
    /\ recurse_options(da) # None
    /\ ~Unwrap(recurse_options(da)).tree
    /\ ~is_too_deep(Unwrap(recurse_options(da)), Depth(dir))

ChildDirFiles(children) == SelectSeq(children, is_directory)

\* a slip: the child directories gone into from the last to the first
ChildDirs_Reversed(children) ==
    LET cs == SelectSeq(ChildDirFiles(children), LAMBDA f : to_dir(f).ok)
    IN  [k \in 1..Len(cs) |-> to_dir(cs[Len(cs) + 1 - k]).dir]

\* the child directories that could be opened, and the diagnostics of the rest
ChildDirs(children) ==
    LET cs == SelectSeq(ChildDirFiles(children), LAMBDA f : to_dir(f).ok)
    IN  [k \in 1..Len(cs) |-> to_dir(cs[k]).dir]

ChildDirErrors(children) ==
    LET cs == SelectSeq(ChildDirFiles(children), LAMBDA f : ~to_dir(f).ok)
    IN  [k \in 1..Len(cs) |-> Diag(cs[k].path, to_dir(cs[k]).err)]

PrintDir ==
    /\ pc = "dirs"
    /\ stack # <<>>
    /\ Head(stack).dir_files # <<>>
    /\ \E fr \in {Head(stack)} :
       \E dir \in {Head(fr.dir_files)} :
       \E io1 \in {IF fr.first THEN io ELSE WriteOut(io, Gap)} :
       \E io2 \in {IF ~fr.is_only_dir THEN WriteOut(io1, Heading(dir)) ELSE io1} :
       \E io3 \in {WriteErrs(io2, ChildErrors(dir))} :
       \E children \in {Children(dir)} :
       \E desc \in {Descends(options.dir_action, dir)} :
       \E io4 \in {IF desc THEN WriteErrs(io3, ChildDirErrors(children)) ELSE io3} :
       \E io5 \in {print_files(io4, Some(dir), children)} :
       \E rest \in {[fr EXCEPT !.dir_files = Tail(@), !.first = FALSE]} :
           /\ io' = io5
           /\ stack' = IF io5.fail # None THEN <<>>
                       ELSE IF desc
                            THEN <<Frame(ChildDirs(children), FALSE, FALSE), rest>>
                                    \o Tail(stack)
                            ELSE <<rest>> \o Tail(stack)
           /\ pc' = IF io5.fail # None THEN "exit" ELSE "dirs"
    /\ UNCHANGED <<packing, startup, detail, sorter, options, legacy, sink, idx, files, dirs, exit_code>>

\* print_dirs has gone through its vector: Ok(()) to its caller
ReturnDirs ==
    /\ pc = "dirs"
    /\ stack # <<>>
    /\ Head(stack).dir_files = <<>>
    /\ stack' = Tail(stack)
    /\ pc' = IF Tail(stack) = <<>> THEN "exit" ELSE "dirs"
    /\ UNCHANGED <<packing, startup, detail, sorter, options, legacy, sink, idx, files, dirs, io, exit_code>>

(***************************************************************************)
(* main: the exit status of the run.                                       *)
(***************************************************************************)
\* main without the BrokenPipe arm: every error of the run is a failure
ExitCode_NoBrokenPipe(fail) == IF fail = None THEN 0 ELSE 1

ExitCode(fail) ==
    IF fail = None THEN 0
    ELSE IF Unwrap(fail).kind = "BrokenPipe" THEN 0
    ELSE 1

\* a failed println! of the older controller panics
ExitCodeLegacy(fail) == IF fail = None THEN 0 ELSE 101

\* what main prints of an error of the run: writeln!(stderr(), "{}", e)
Failure(e) == [t |-> "failure", on |-> e.on, kind |-> e.kind]

\* main prints the error run returned, unless it is a broken pipe; the older
\* main has no result of run to look at
PrintsError(fail) ==
    ~legacy /\ fail # None /\ Unwrap(fail).kind # "BrokenPipe"

\* stderr does not take one more line
StderrRefuses(w) ==
    sink.err_limit # None /\ Len(w.err) >= Unwrap(sink.err_limit)

\* the unwrap() of that print panics when stderr refuses it
Exit ==
    /\ pc = "exit"
    /\ io' = IF PrintsError(io.fail) /\ ~StderrRefuses(io)
             THEN [io EXCEPT !.err = Append(@, Failure(Unwrap(io.fail)))]
             ELSE io
    /\ exit_code' = Some(IF legacy THEN ExitCodeLegacy(io.fail)
                         ELSE IF PrintsError(io.fail) /\ StderrRefuses(io)
                              THEN PanicStatus
                              ELSE ExitCode(io.fail))
    /\ pc' = "done"
    /\ UNCHANGED <<packing, startup, detail, sorter, options, legacy, sink, idx, files, dirs, stack>>

Next == ResolveArg \/ EmitFiles \/ PrintDir \/ ReturnDirs \/ Exit

Spec == Init /\ [][Next]_vars

\* the runs whose termination is checked: the order of the children is left
\* as the name sort gives it
InitLive ==
    /\ Init
    /\ ~options.filter.reverse
    /\ ~options.filter.list_dirs_first

\* the run is one thread that is never held up: a step that can be taken is
\* taken
SpecLive == InitLive /\ [][Next]_vars /\ WF_vars(Next)

\* the older controller of src/main.rs on the same inputs
InitLegacy ==
    /\ options \in [dir_action : DirActions, filter : RunFilters, paths : ArgLists]
    /\ legacy = TRUE
    /\ sink \in Sinks
    /\ InitRun

SpecLegacy == InitLegacy /\ [][Next]_vars

\* the run against sinks that fail after a number of writes
PipeSinks ==
    [out_limit : {None} \cup {Some(n) : n \in 0..MaxWrites},
     err_limit : {None, Some(0)}, kind : {"BrokenPipe", "Other"}]

InitPipe ==
    /\ options \in [dir_action : {[kind |-> "List"],
                                  [kind |-> "Recurse", tree |-> FALSE, max_depth |-> None]},
                     filter : {[list_dirs_first |-> FALSE, reverse |-> FALSE,
                                show_invisibles |-> FALSE, sort_field |-> "Name"]},
                     paths : ArgLists]
    /\ legacy = FALSE
    /\ sink \in PipeSinks
    /\ InitRun

SpecPipe == InitPipe /\ [][Next]_vars

(***************************************************************************)
(* The filter and sort of one directory's children on their own            *)
(* (print_dirs, the calls of filter_child_files and sort_files), over      *)
(* every filter and every short vector of distinct entries.                *)
(***************************************************************************)
SortPool ==
    Range(OkChildren([path |-> <<n_top>>])) \cup Range(OkChildren([path |-> <<n_dir1>>]))

Distinct(s) == \A i, j \in 1..Len(s) : i # j => s[i] # s[j]

SortInputs ==
    {s \in UNION {[1..n -> SortPool] : n \in 0..MaxSortLen} : Distinct(s)}

InitSort ==
    /\ sorter \in [pc : {"start"}, filter : FileFilters, input : SortInputs,
                    primary : {<<>>}, output : {<<>>}]
    /\ options = [dir_action |-> [kind |-> "List"], filter |-> sorter.filter,
                  paths |-> <<>>]
    /\ packing = PackingIdle
    /\ detail = DetailIdle
    /\ startup = StartupIdle
    /\ legacy = FALSE
    /\ sink = [out_limit |-> None, err_limit |-> None, kind |-> "BrokenPipe"]
    /\ pc = "off"
    /\ idx = 1
    /\ files = <<>>
    /\ dirs = <<>>
    /\ stack = <<>>
    /\ io = [out |-> <<>>, err |-> <<>>, fail |-> None]
    /\ exit_code = None

SortChildren ==
    /\ sorter.pc = "start"
    /\ LET children == filter_child_files(sorter.filter, sorter.input)
       IN  sorter' = [sorter EXCEPT !.pc = "sorted",
                                    !.primary = PrimarySort(sorter.filter, children),
                                    !.output = sort_files(sorter.filter, children)]
    /\ UNCHANGED <<packing, startup, detail, options, legacy, sink, pc, idx, files, dirs, stack, io,
                   exit_code>>

NextSort == SortChildren

SpecSort == InitSort /\ [][NextSort]_vars

(***************************************************************************)
(* The column set of a detail view on its own: Columns::from (for the      *)
(* older program Columns::deduce) on the parsed arguments, then            *)
(* Columns::for_dir for the directory context of one print_files call and  *)
(* Column::alignment for each column of the table, over both builds (with  *)
(* and without the git feature).                                           *)
(***************************************************************************)
\* the sequences of at most n values over a set of words
WordLists(words, n) == UNION {[1..k -> words] : k \in 0..n}

\* The parsed arguments that concern the columns. The argument parser has
\* rejected --binary with --bytes and --time with --modified, --created or
\* --accessed; --git exists only in a build with the git feature.
ColumnMatches(older, git_feature) ==
    {m \in [inode : BOOLEAN, links : BOOLEAN, blocks : BOOLEAN, group : BOOLEAN,
            git : BOOLEAN, modified : BOOLEAN, created : BOOLEAN,
            accessed : BOOLEAN, binary : BOOLEAN, bytes : BOOLEAN,
            time : WordLists(IF older THEN TimeFields ELSE TimeWords, MaxTimeWords)] :
        /\ ~(m.binary /\ m.bytes)
        /\ m.time # <<>> => ~(m.modified \/ m.created \/ m.accessed)
        /\ m.git => git_feature}

\* The directory context of a print_files call: none for the batch of the
\* command-line files, else the Dir that to_dir made, which knows of a
\* repository only if it was asked to scan for one and there is one.
DirContexts(columns) ==
    {None} \cup {Some([git |-> should_scan_for_git(columns) /\ repo, repo |-> repo]) :
                    repo \in BOOLEAN}

InitColumns ==
    /\ legacy \in BOOLEAN
    /\ \E g \in BOOLEAN :
          \E m \in ColumnMatches(legacy, g) :
             detail = [DetailIdle EXCEPT !.pc = "matches", !.git_feature = g,
                                         !.matches = m]
    /\ sorter = SorterIdle
    /\ packing = PackingIdle
    /\ startup = StartupIdle
    /\ options = [dir_action |-> [kind |-> "List"], filter |-> SorterIdle.filter,
                  paths |-> <<>>]
    /\ sink = [out_limit |-> None, err_limit |-> None, kind |-> "BrokenPipe"]
    /\ pc = "off"
    /\ idx = 1
    /\ files = <<>>
    /\ dirs = <<>>
    /\ stack = <<>>
    /\ io = [out |-> <<>>, err |-> <<>>, fail |-> None]
    /\ exit_code = None

ColumnsFrom ==
    /\ detail.pc = "matches"
    /\ detail' = [detail EXCEPT
                    !.pc = "columns",
                    !.columns = IF legacy
                                THEN Columns_deduce(detail.matches, detail.git_feature)
                                ELSE Columns_from(detail.matches, detail.git_feature)]
    /\ UNCHANGED <<packing, startup, sorter, options, legacy, sink, pc, idx, files, dirs, stack, io,
                   exit_code>>

ForDir ==
    /\ detail.pc = "columns"
    /\ \E dir \in DirContexts(detail.columns) :
          detail' = [detail EXCEPT
                        !.pc = "resolved",
                        !.dir = dir,
                        !.resolved = for_dir(detail.columns, dir, detail.git_feature),
                        !.aligns = LET cols == for_dir(detail.columns, dir,
                                                       detail.git_feature)
                                   IN  [k \in 1..Len(cols) |-> alignment(cols[k])]]
    /\ UNCHANGED <<packing, startup, sorter, options, legacy, sink, pc, idx, files, dirs, stack, io,
                   exit_code>>

NextColumns == ColumnsFrom \/ ForDir

SpecColumns == InitColumns /\ [][NextColumns]_vars

(***************************************************************************)
(* The whole of main: Exa::new on the parsed arguments and the             *)
(* environment, then either the run or the exit on a Misfire.              *)
(***************************************************************************)
\* the values of --level and of COLUMNS: a number, and a text that is none
LevelTexts == {None, Some(<<"1">>), Some(<<"x">>)}

ColumnsTexts == {None, Some(<<"1", "2">>), Some(<<"x">>)}

Envs == [COLUMNS : ColumnsTexts, dimensions : {None, Some(8)}]

StartPaths == {<<(<<CurDir>>)>>, <<(<<n_a_txt>>), (<<n_dir1>>)>>}

\* The parsed arguments main is started with. The argument parser has
\* rejected --oneline with --grid, --across or --tree, --list-dirs with
\* --recurse or --tree, and --level without --recurse or --tree.
StartMatches ==
    {[NoMatches EXCEPT !.long = b.long, !.grid = b.grid, !.oneline = b.oneline,
                       !.tree = b.tree, !.across = b.across, !.recurse = b.recurse,
                       !.list_dirs = b.list_dirs, !.level = b.level,
                       !.color = b.color, !.inode = b.inode, !.paths = b.paths] :
        b \in {c \in [long : BOOLEAN, grid : BOOLEAN, oneline : BOOLEAN,
                      tree : BOOLEAN, across : BOOLEAN, recurse : BOOLEAN,
                      list_dirs : BOOLEAN, level : LevelTexts,
                      color : {"always", "auto", "never"}, inode : BOOLEAN,
                      paths : StartPaths] :
                  /\ c.oneline => ~(c.grid \/ c.across \/ c.tree)
                  /\ c.list_dirs => ~(c.recurse \/ c.tree)
                  /\ c.level # None => (c.recurse \/ c.tree)}}

\* What the argument layer hands to Options::from_matches: the matches, or
\* one of the misfires that are raised before the deduction.
StartupCli(older) ==
    IF older THEN {"Matches", "Help", "Version", "Conflict"}
    ELSE {"Matches"} \cup (Misfires \ {"FailedParse"})

InitStart ==
    /\ legacy \in BOOLEAN
    /\ \E c \in StartupCli(legacy) :
          \E m \in IF c = "Matches" THEN StartMatches ELSE {NoMatches} :
             \E e \in IF c = "Matches" THEN Envs ELSE {StartupIdle.env} :
                startup = [cli |-> c, matches |-> m, env |-> e, git_feature |-> TRUE,
                           result |-> None]
    /\ options = [dir_action |-> [kind |-> "List"], filter |-> SorterIdle.filter,
                  paths |-> <<>>]
    /\ sink \in Sinks
    /\ sorter = SorterIdle
    /\ packing = PackingIdle
    /\ detail = DetailIdle
    /\ pc = "new"
    /\ idx = 1
    /\ files = <<>>
    /\ dirs = <<>>
    /\ stack = <<>>
    /\ io = [out |-> <<>>, err |-> <<>>, fail |-> None]
    /\ exit_code = None

\* Exa::new: the options for the run, or a Misfire for main, or the end of
\* the process inside the deduction (value_t_or_exit!, unreachable!())
NewExa ==
    /\ pc = "new"
    /\ LET r == IF startup.cli # "Matches" THEN Err(startup.cli)
                ELSE IF legacy
                THEN Options_deduce(startup.matches, startup.env, startup.git_feature)
                ELSE from_matches(startup.matches, startup.env, startup.git_feature)
       IN  /\ startup' = [startup EXCEPT !.result = Some(r)]
           /\ IF r.ok
              THEN /\ options' = [dir_action |-> r.value.dir_action,
                                  filter |-> r.value.filter, paths |-> r.value.paths]
                   /\ pc' = "resolve"
                   /\ UNCHANGED exit_code
              ELSE IF "misfire" \in DOMAIN r
              THEN /\ pc' = "misfire"
                   /\ UNCHANGED <<options, exit_code>>
              ELSE /\ pc' = "done"
                   /\ exit_code' = Some(IF "panicked" \in DOMAIN r THEN PanicStatus
                                        ELSE r.exited)
                   /\ UNCHANGED options
    /\ UNCHANGED <<packing, detail, sorter, legacy, sink, idx, files, dirs, stack, io>>

\* main on Err(e) of Exa::new: the misfire written and the process ended
\* with its error code; Misfire::exit in the older program
MisfireExit ==
    /\ pc = "misfire"
    /\ LET m    == Unwrap(startup.result).misfire
           item == [t |-> "misfire", misfire |-> m]
           w    == IF legacy /\ ~use_stderr(m) THEN WriteOut(io, item)
                   ELSE WriteStderr(io, item)
       IN  /\ io' = w
           /\ exit_code' = Some(IF w.fail # None THEN PanicStatus
                                ELSE IF legacy THEN exit_older(m)
                                ELSE error_code(m))
    /\ pc' = "done"
    /\ UNCHANGED <<packing, startup, detail, sorter, options, legacy, sink, idx, files, dirs, stack>>

NextStart == NewExa \/ MisfireExit \/ Next

SpecStart == InitStart /\ [][NextStart]_vars

(***************************************************************************)
(* main from the command line on: the argument parser of build_cli, which  *)
(* ends the process on a usage error, then Exa::new and the run.           *)
(***************************************************************************)
\* the options of the long view ("Long view options" of build_cli, and
\* --git and --extended of conditional_args)
DetailOnly ==
    {"binary", "bytes", "header", "group", "inode", "links", "blocks", "git",
     "extended"}

\* whether the option is on the command line
Given(args, option) ==
    CASE option = "binary"   -> args.binary
      [] option = "bytes"    -> args.bytes
      [] option = "header"   -> args.header
      [] option = "group"    -> args.group
      [] option = "inode"    -> args.inode
      [] option = "links"    -> args.links
      [] option = "blocks"   -> args.blocks
      [] option = "git"      -> args.git
      [] option = "extended" -> args.extended

\* clap ends the process with this status on a usage error
UsageStatus == 1

\* a parser without the requirement of --level
build_cli_NoLevelRule(args) ==
    IF args.oneline /\ (args.grid \/ args.across \/ args.tree)
    THEN [ok |-> FALSE, exited |-> UsageStatus, usage |-> "oneline"]
    ELSE IF args.list_dirs /\ (args.recurse \/ args.tree)
    THEN [ok |-> FALSE, exited |-> UsageStatus, usage |-> "list-dirs"]
    ELSE IF args.bytes /\ args.binary
    THEN [ok |-> FALSE, exited |-> UsageStatus, usage |-> "bytes"]
    ELSE Ok(args)

\* build_cli().get_matches(): the matches, or the end of the process on the
\* first rule of build_cli the arguments break
build_cli(args) ==
    LET broken ==
            IF args.oneline /\ (args.grid \/ args.across \/ args.tree)
            THEN Some("oneline")
            ELSE IF args.list_dirs /\ (args.recurse \/ args.tree)
            THEN Some("list-dirs")
            ELSE IF args.time # <<>> /\ (args.modified \/ args.created \/ args.accessed)
            THEN Some("time")
            ELSE IF args.bytes /\ args.binary
            THEN Some("bytes")
            ELSE IF args.level # None /\ ~(args.recurse \/ args.tree)
            THEN Some("level")
            ELSE None
    IN  IF broken = None THEN Ok(args)
        ELSE [ok |-> FALSE, exited |-> UsageStatus, usage |-> Unwrap(broken)]

\* the command lines: every combination of the display and directory
\* options, with none, one or two of the options of the long view
OptionArgs ==
    {[NoMatches EXCEPT !.long = b.long, !.grid = b.grid, !.oneline = b.oneline,
                       !.tree = b.tree, !.across = b.across, !.recurse = b.recurse,
                       !.list_dirs = b.list_dirs, !.level = b.level,
                       !.binary = "binary" \in b.detail, !.bytes = "bytes" \in b.detail,
                       !.header = "header" \in b.detail, !.group = "group" \in b.detail,
                       !.inode = "inode" \in b.detail, !.links = "links" \in b.detail,
                       !.blocks = "blocks" \in b.detail, !.git = "git" \in b.detail,
                       !.extended = "extended" \in b.detail,
                       !.paths = <<(<<n_dir1>>)>>] :
        b \in [long : BOOLEAN, grid : BOOLEAN, oneline : BOOLEAN, tree : BOOLEAN,
               across : BOOLEAN, recurse : BOOLEAN, list_dirs : BOOLEAN,
               level : LevelTexts,
               detail : {{}} \cup {{o} : o \in DetailOnly} \cup {{"binary", "bytes"}}]}

InitOptions ==
    /\ legacy \in BOOLEAN
    /\ \E a \in OptionArgs :
          \E d \in {None, Some(8)} :
             startup = [cli |-> "Matches", matches |-> a,
                        env |-> [COLUMNS |-> None, dimensions |-> d],
                        git_feature |-> TRUE, result |-> None]
    /\ options = [dir_action |-> [kind |-> "List"], filter |-> SorterIdle.filter,
                  paths |-> <<>>]
    /\ sink \in Sinks
    /\ sorter = SorterIdle
    /\ packing = PackingIdle
    /\ detail = DetailIdle
    /\ pc = "args"
    /\ idx = 1
    /\ files = <<>>
    /\ dirs = <<>>
    /\ stack = <<>>
    /\ io = [out |-> <<>>, err |-> <<>>, fail |-> None]
    /\ exit_code = None

\* Exa::new, its first line: clap has the matches, or has written its usage
\* error and ended the process
GetMatches ==
    /\ pc = "args"
    /\ LET r == build_cli(startup.matches)
       IN  IF r.ok
           THEN /\ pc' = "new"
                /\ UNCHANGED <<packing, startup, io, exit_code>>
           ELSE /\ startup' = [startup EXCEPT !.result = Some(r)]
                /\ io' = WriteStderr(io, [t |-> "usage", option |-> r.usage])
                /\ exit_code' = Some(r.exited)
                /\ pc' = "done"
    /\ UNCHANGED <<packing, detail, sorter, options, legacy, sink, idx, files, dirs, stack>>

NextOptions == GetMatches \/ NextStart

SpecOptions == InitOptions /\ [][NextOptions]_vars

(***************************************************************************)
(* The grid engine on its own, over every short batch of entry widths,     *)
(* every terminal width up to MaxTerm and both orders of filling.          *)
(***************************************************************************)
WidthLists == UNION {[1..n -> EntryWidths] : n \in 1..MaxEntries}

InitGrid ==
    /\ packing \in [pc : {"entries"}, widths : WidthLists,
                    console_width : 0..MaxTerm, across : BOOLEAN, result : {None}]
    /\ options = [dir_action |-> [kind |-> "List"], filter |-> SorterIdle.filter,
                  paths |-> <<>>]
    /\ legacy = FALSE
    /\ sink \in Sinks
    /\ sorter = SorterIdle
    /\ detail = DetailIdle
    /\ startup = StartupIdle
    /\ pc = "off"
    /\ idx = 1
    /\ files = <<>>
    /\ dirs = <<>>
    /\ stack = <<>>
    /\ io = [out |-> <<>>, err |-> <<>>, fail |-> None]
    /\ exit_code = None

\* the Grid view packs the batch it was handed
FitIntoWidth ==
    /\ packing.pc = "entries"
    /\ packing' = [packing EXCEPT
                     !.pc = "packed",
                     !.result = Some(fit_into_width(packing.widths,
                                                    packing.console_width,
                                                    packing.across))]
    /\ UNCHANGED <<startup, detail, sorter, options, legacy, sink, pc, idx, files,
                   dirs, stack, io, exit_code>>

NextGrid == FitIntoWidth

SpecGrid == InitGrid /\ [][NextGrid]_vars

(***************************************************************************)
(* Vocabulary of the properties.                                           *)
(***************************************************************************)
DefaultFilter ==
    [list_dirs_first |-> FALSE, reverse |-> FALSE, show_invisibles |-> FALSE,
     sort_field |-> "Name"]

\* the run is about to execute one iteration of print_dirs' loop
AtPrintDir == pc = "dirs" /\ stack # <<>> /\ Head(stack).dir_files # <<>>

\* the directory that iteration is for
CurrentDir == Head(Head(stack).dir_files)

\* what the step writes to the writer
Written == SubSeq(io'.out, Len(io.out) + 1, Len(io'.out))

GapWritten == Written # <<>> /\ Written[1] = Gap

HeadingWritten == \E k \in 1..Len(Written) : Written[k].t = "heading"

\* the number of path components that are not "."
Components(path) == Cardinality({k \in 1..Len(path) : path[k] # CurDir})

(***************************************************************************)
(* C1. End-to-end scenario: the paths a.txt and dir1 under the default     *)
(* options write the entry a.txt, then a blank line, then the heading      *)
(* "dir1:", then b.txt only.                                               *)
(***************************************************************************)
C1_EndToEnd ==
    ( /\ pc = "done"
      /\ options.paths = <<(<<n_a_txt>>), (<<n_dir1>>)>>
      /\ options.dir_action = [kind |-> "List"]
      /\ options.filter = DefaultFilter )
    => io.out = << [t |-> "files", dir |-> None, files |-> <<(<<n_a_txt>>)>>],
                   [t |-> "gap"],
                   [t |-> "heading", path |-> <<n_dir1>>],
                   [t |-> "files", dir |-> Some(<<n_dir1>>),
                    files |-> <<(<<n_dir1, n_b_txt>>)>>] >>

(***************************************************************************)
(* C2. The heading of a named directory is left out if and only if exactly *)
(* one directory was named and the file batch is empty; in every other     *)
(* case the block of each named directory starts with its heading.         *)
(***************************************************************************)
C2_HeadingRule ==
    [][ (AtPrintDir /\ Len(stack) = 1)
            => (~HeadingWritten <=> (Len(dirs) = 1 /\ files = <<>>)) ]_vars

(***************************************************************************)
(* C3. A blank line is written before every directory block except the     *)
(* first block of the output: never at the very start of the output, and   *)
(* always between the file batch and the first directory block.            *)
(***************************************************************************)
C3_SeparatorRule ==
    [][ AtPrintDir => (GapWritten <=> io.out # <<>>) ]_vars

(***************************************************************************)
(* C4. A command-line path that cannot be resolved is reported as a        *)
(* diagnostic and left out, and the run goes on: every other named path    *)
(* that resolves is rendered, wherever the failing path stands.            *)
(***************************************************************************)
\* the path can be stat-ed and, where it is to be listed, opened
Resolves(path) ==
    /\ Canon(path) \in DOMAIN Tree
    /\ Tree[Canon(path)].stat = "Ok"
    /\ (Tree[Canon(path)].kind = "dir" /\ options.dir_action.kind \in {"List", "Recurse"}
            /\ ~(options.dir_action.kind = "Recurse" /\ options.dir_action.tree))
          => Tree[Canon(path)].readable

InFileBatch(path) ==
    \E k \in 1..Len(io.out) :
        io.out[k].t = "files" /\ io.out[k].dir = None /\ path \in Range(io.out[k].files)

HasBlock(path) ==
    \E k \in 1..Len(io.out) : io.out[k].t = "files" /\ io.out[k].dir = Some(path)

Reported(path) ==
    \E k \in 1..Len(io.err) : io.err[k].t = "error" /\ io.err[k].path = path

\* C4: at the end of the run every named path that resolves has been
\* rendered, every other one has its diagnostic and no output, and the run
\* has ended Ok.
C4_UnresolvedPathSkipped ==
    pc = "done" =>
        /\ io.fail = None
        /\ exit_code = Some(0)
        /\ \A k \in 1..Len(options.paths) :
              LET path == options.paths[k]
              IN  IF Resolves(path)
                  THEN InFileBatch(path) \/ HasBlock(path)
                  ELSE Reported(path) /\ ~InFileBatch(path) /\ ~HasBlock(path)

\* C4, its case: the first path fails, the second is listed after it
C4_Witness ==
    /\ pc = "done"
    /\ options.paths = <<(<<n_gone>>), (<<n_dir1>>)>>
    /\ options.dir_action = [kind |-> "List"]
    /\ Reported(<<n_gone>>)
    /\ HasBlock(<<n_dir1>>)

(***************************************************************************)
(* C5. Each resolved argument is in exactly one batch: in the directory    *)
(* batch if and only if it is a directory and the mode is neither AsFile   *)
(* nor tree-mode Recurse, and otherwise in the file batch.                 *)
(***************************************************************************)
DirsAsFiles ==
    \/ options.dir_action.kind = "AsFile"
    \/ options.dir_action.kind = "Recurse" /\ options.dir_action.tree

ToDirBatch(path) ==
    Resolves(path) /\ Tree[Canon(path)].kind = "dir" /\ ~DirsAsFiles

ToFileBatch(path) ==
    Resolves(path) /\ ~(Tree[Canon(path)].kind = "dir" /\ ~DirsAsFiles)

PathsOf(batch) == [k \in 1..Len(batch) |-> batch[k].path]

\* C5: the two batches are the resolved paths seen so far, split by
\* "a directory, and the mode neither AsFile nor tree-mode Recurse".
C5_BatchSplit ==
    LET seen == SubSeq(options.paths, 1, idx - 1)
    IN  /\ PathsOf(dirs) = SelectSeq(seen, ToDirBatch)
        /\ PathsOf(files) = SelectSeq(seen, ToFileBatch)

\* C5, its case: tree mode puts a named directory into the file batch
C5_Witness ==
    /\ pc = "done"
    /\ options.dir_action.kind = "Recurse"
    /\ options.dir_action.tree
    /\ options.paths = <<(<<n_dir1>>), (<<n_a_txt>>)>>
    /\ PathsOf(files) = options.paths
    /\ dirs = <<>>

(***************************************************************************)
(* C6. After rendering a directory's children the controller goes into its *)
(* child directories exactly when the mode is Recurse, tree is off and the *)
(* directory's depth (its components other than ".", plus 1) is within the *)
(* max depth.  As claimed: the depth does not exceed the max depth.  As    *)
(* the code has it: the depth is strictly below the max depth.             *)
(***************************************************************************)
\* the step calls print_dirs on the child directories
CallsPrintDirs == Len(stack') = Len(stack) + 1

FlatRecurse == options.dir_action.kind = "Recurse" /\ ~options.dir_action.tree

\* C6 as claimed: print_dirs is called on the child directories iff flat
\* Recurse and depth <= max depth.
C6_DescendsIffNotExceeding ==
    [][ AtPrintDir =>
          (CallsPrintDirs <=>
              /\ FlatRecurse
              /\ \/ options.dir_action.max_depth = None
                 \/ Components(CurrentDir.path) + 1
                        <= Unwrap(options.dir_action.max_depth)) ]_vars

\* C6 as amended: print_dirs is called on the child directories iff flat
\* Recurse and depth < max depth.
C6_DescendsIffBelow ==
    [][ AtPrintDir =>
          (CallsPrintDirs <=>
              /\ FlatRecurse
              /\ \/ options.dir_action.max_depth = None
                 \/ Components(CurrentDir.path) + 1
                        < Unwrap(options.dir_action.max_depth)) ]_vars

\* C6, its case: a bounded descent has happened ("." has depth 1, below
\* the level 2)
C6_Witness ==
    /\ options.paths = <<(<<CurDir>>)>>
    /\ options.dir_action = [kind |-> "Recurse", tree |-> FALSE, max_depth |-> Some(2)]
    /\ pc = "dirs"
    /\ Len(stack) = 2
    /\ HasBlock(<<CurDir>>)

(***************************************************************************)
(* C7. Depth limiting: in flat recurse mode with max_depth = 1, a named    *)
(* directory three levels deep has its immediate children rendered and no  *)
(* block is written for the contents of any of its subdirectories.         *)
(***************************************************************************)
\* C7: with max_depth = 1 every block and heading belongs to a named
\* directory, print_dirs is never called on children, and every named
\* directory gets its block.
C7_DepthOne ==
    (FlatRecurse /\ options.dir_action.max_depth = Some(1)) =>
        /\ \A k \in 1..Len(io.out) :
              /\ io.out[k].t = "files" /\ io.out[k].dir # None
                    => Unwrap(io.out[k].dir) \in Range(options.paths)
              /\ io.out[k].t = "heading" => io.out[k].path \in Range(options.paths)
        /\ Len(stack) <= 1
        /\ pc = "done" =>
              \A k \in 1..Len(options.paths) :
                  ToDirBatch(options.paths[k]) => HasBlock(options.paths[k])

\* C7, its case: top, three levels deep, listed to its immediate children
C7_Witness ==
    /\ pc = "done"
    /\ FlatRecurse
    /\ options.dir_action.max_depth = Some(1)
    /\ options.filter = DefaultFilter
    /\ options.paths = <<(<<n_top>>)>>
    /\ \E k \in 1..Len(io.out) :
          io.out[k] = [t |-> "files", dir |-> Some(<<n_top>>),
                       files |-> << <<n_top, n_f2>>, <<n_top, n_f10>>,
                                    <<n_top, n_locked>>, <<n_top, n_mid>> >>]

(***************************************************************************)
(* C8. Filtering asymmetry: with show-hidden off, a dot-named entry named  *)
(* on the command line stays in the rendered file batch, while every       *)
(* dot-named child of a listed directory is removed before rendering; with *)
(* show-hidden on nothing is removed in either place.                      *)
(***************************************************************************)
DotNamed(path) == path[Len(path)][1] = "."

\* the children of a directory that could be stat-ed
StatableChildren(path) ==
    {Append(path, c) : c \in {n \in Range(Tree[Canon(path)].children) :
                                Tree[Append(Canon(path), n)].stat = "Ok"}}

\* C8: every entry of the file batch is rendered, dot-named or not; a
\* directory's block holds its children without the dot-named ones, or all
\* of them when show-hidden is on.
C8_FilterAsymmetry ==
    /\ pc \in {"dirs", "exit", "done"} =>
          \A k \in 1..Len(files) : InFileBatch(files[k].path)
    /\ \A k \in 1..Len(io.out) :
          (io.out[k].t = "files" /\ io.out[k].dir # None) =>
              Range(io.out[k].files) =
                  {c \in StatableChildren(Unwrap(io.out[k].dir)) :
                        options.filter.show_invisibles \/ ~DotNamed(c)}

\* C8, its case: .hidden named and rendered, dir1/.secret removed
C8_Witness ==
    /\ pc = "done"
    /\ ~options.filter.show_invisibles
    /\ options.paths = <<(<<n_hidden>>), (<<n_dir1>>)>>
    /\ InFileBatch(<<n_hidden>>)
    /\ \E k \in 1..Len(io.out) :
          /\ io.out[k].t = "files"
          /\ io.out[k].dir = Some(<<n_dir1>>)
          /\ <<n_dir1, n_secret>> \notin Range(io.out[k].files)
          /\ <<n_dir1, n_b_txt>> \in Range(io.out[k].files)

(***************************************************************************)
(* C9. The sequence handed to the view is the hidden-filter, then the      *)
(* stable primary sort by the key, then the whole-sequence reversal if     *)
(* reverse is set, then the stable directories-first partition if          *)
(* directories-first is set, applied in this order.                        *)
(***************************************************************************)
RefFilter(f, s) == SelectSeq(s, LAMBDA x : f.show_invisibles \/ x.name[1] # ".")

\* the stable sort, by rank: an entry goes behind every entry that is less
\* and behind every equal entry that stood before it
RefStableSort(f, s) ==
    LET rank(i) ==
            1 + Cardinality({j \in 1..Len(s) : compare_files(f, s[j], s[i]) = "Less"})
              + Cardinality({j \in 1..(i - 1) : compare_files(f, s[j], s[i]) = "Equal"})
    IN  [k \in 1..Len(s) |-> s[CHOOSE i \in 1..Len(s) : rank(i) = k]]

RefReverse(f, s) ==
    IF f.reverse THEN [k \in 1..Len(s) |-> s[Len(s) + 1 - k]] ELSE s

RefDirsFirst(f, s) ==
    IF f.list_dirs_first
    THEN SelectSeq(s, LAMBDA x : x.is_dir) \o SelectSeq(s, LAMBDA x : ~x.is_dir)
    ELSE s

\* C9: the output of filter_child_files and sort_files is
\* partition(reverse(stable-sort(filter(input)))).
C9_FixedOrder ==
    sorter.pc = "sorted" =>
        sorter.output =
            RefDirsFirst(sorter.filter,
                RefReverse(sorter.filter,
                    RefStableSort(sorter.filter,
                        RefFilter(sorter.filter, sorter.input))))

\* C9, its case: a vector on which reversing after the partition would
\* give another result
C9_Witness ==
    /\ sorter.pc = "sorted"
    /\ sorter.filter.reverse
    /\ sorter.filter.list_dirs_first
    /\ ~sorter.filter.show_invisibles
    /\ Len(sorter.output) < Len(sorter.input)
    /\ sorter.output #
          RefReverse(sorter.filter,
              RefDirsFirst(sorter.filter,
                  RefStableSort(sorter.filter,
                      RefFilter(sorter.filter, sorter.input))))

(***************************************************************************)
(* C10. Stability: for every input and every sort key, Unsorted included,  *)
(* the primary sort leaves entries that compare equal under the key in     *)
(* their relative order of before the sort.                                *)
(***************************************************************************)
\* where an entry stood in the vector handed to sort_files
PosIn(s, x) == CHOOSE k \in 1..Len(s) : s[k] = x

\* C10: the vector after the primary sort is a permutation of the filtered
\* input in which entries that compare Equal keep their input order.
C10_StablePrimarySort ==
    sorter.pc = "sorted" =>
        /\ Range(sorter.primary) = {x \in Range(sorter.input) :
                                      sorter.filter.show_invisibles \/ ~is_dotfile(x)}
        /\ Len(sorter.primary) = Cardinality(Range(sorter.primary))
        /\ \A i, j \in 1..Len(sorter.primary) :
              (i < j /\ compare_files(sorter.filter, sorter.primary[i],
                                      sorter.primary[j]) = "Equal")
                  => PosIn(sorter.input, sorter.primary[i])
                        < PosIn(sorter.input, sorter.primary[j])

\* C10, its case: a sort by size that moved entries, two of equal size
\* among them
C10_Witness ==
    /\ sorter.pc = "sorted"
    /\ sorter.filter.sort_field = "Size"
    /\ Len(sorter.primary) = 3
    /\ sorter.primary # sorter.input
    /\ \E i \in 1..2 : sorter.primary[i].size = sorter.primary[i + 1].size

(***************************************************************************)
(* C11. Reverse is a reversal of the whole sorted vector: with             *)
(* directories-first off, for every sort key and every input, sort_files   *)
(* with reverse set yields the reversal of what it yields with reverse     *)
(* unset, so entries that compare equal come out in the reverse of their   *)
(* input order.                                                            *)
(***************************************************************************)
\* the filter with reverse unset
Forward(filter) == [filter EXCEPT !.reverse = FALSE]

\* C11: with reverse set and directories-first unset, the output is the
\* reversal of the output under the same filter with reverse unset, and
\* entries that compare Equal stand in the reverse of their input order.
C11_ReverseIsReversal ==
    (sorter.pc = "sorted" /\ sorter.filter.reverse /\ ~sorter.filter.list_dirs_first) =>
        /\ sorter.output =
              [k \in 1..Len(sorter.primary) |->
                  sort_files(Forward(sorter.filter),
                             filter_child_files(sorter.filter, sorter.input))
                      [Len(sorter.primary) + 1 - k]]
        /\ \A i, j \in 1..Len(sorter.output) :
              (i < j /\ compare_files(sorter.filter, sorter.output[i],
                                      sorter.output[j]) = "Equal")
                  => PosIn(sorter.input, sorter.output[i])
                        > PosIn(sorter.input, sorter.output[j])

\* C11, its case: a reversed sort by size of three entries, two of them of
\* equal size, where a reversed comparator would have given another order
C11_Witness ==
    /\ sorter.pc = "sorted"
    /\ sorter.filter.reverse
    /\ ~sorter.filter.list_dirs_first
    /\ sorter.filter.sort_field = "Size"
    /\ Len(sorter.output) = 3
    /\ \E i \in 1..2 :
          /\ sorter.output[i].size = sorter.output[i + 1].size
          /\ PosIn(sorter.input, sorter.output[i])
                > PosIn(sorter.input, sorter.output[i + 1])
    /\ \E i \in 1..2 : sorter.output[i].size # sorter.output[i + 1].size

(***************************************************************************)
(* C12. The directories-first pass puts every directory before every       *)
(* entry that is not a directory, keeps the relative order inside each of  *)
(* the two groups, and applied a second time changes nothing.              *)
(***************************************************************************)
\* the vector as it stood before the directories-first pass
BeforeDirsFirst ==
    IF sorter.filter.reverse
    THEN [k \in 1..Len(sorter.primary) |-> sorter.primary[Len(sorter.primary) + 1 - k]]
    ELSE sorter.primary

\* C12: with directories-first set, the output is a rearrangement of the
\* vector before the pass with no directory behind a non-directory and
\* with each group in its order of before; the pass applied to the output
\* gives the output.
C12_DirsFirstStableIdempotent ==
    (sorter.pc = "sorted" /\ sorter.filter.list_dirs_first) =>
        /\ Len(sorter.output) = Len(BeforeDirsFirst)
        /\ Range(sorter.output) = Range(BeforeDirsFirst)
        /\ \A i, j \in 1..Len(sorter.output) :
              i < j =>
                  /\ sorter.output[j].is_dir => sorter.output[i].is_dir
                  /\ sorter.output[i].is_dir = sorter.output[j].is_dir
                        => PosIn(BeforeDirsFirst, sorter.output[i])
                              < PosIn(BeforeDirsFirst, sorter.output[j])
        /\ DirsFirstStep(sorter.filter, sorter.output) = sorter.output

\* C12, its case: the pass moved two directories forward over a file that
\* stood first, and the two are not in name order (reverse is set)
C12_Witness ==
    /\ sorter.pc = "sorted"
    /\ sorter.filter.list_dirs_first
    /\ sorter.filter.reverse
    /\ sorter.output # BeforeDirsFirst
    /\ Len(sorter.output) = 3
    /\ ~BeforeDirsFirst[1].is_dir
    /\ sorter.output[1].is_dir /\ sorter.output[2].is_dir
    /\ ~sorter.output[3].is_dir

(***************************************************************************)
(* C13. for_dir returns the columns in the fixed order inode, permissions, *)
(* hard links, file size, blocks, user, group, timestamps, git status,     *)
(* each at most once; permissions, file size and user are in every result  *)
(* and each optional column is there exactly when its flag is set.         *)
(***************************************************************************)
ColumnOrder ==
    <<"Inode", "Permissions", "HardLinks", "FileSize", "Blocks", "User", "Group",
      "Timestamp", "GitStatus">>

\* the place of a column's kind in the fixed order
Rank(column) == CHOOSE k \in 1..Len(ColumnOrder) : ColumnOrder[k] = column.col

\* the kinds of column and the timestamps in a resolved list
Kinds(cols) == {cols[k].col : k \in 1..Len(cols)}

Stamps(cols) == {cols[k].arg : k \in {i \in 1..Len(cols) : cols[i].col = "Timestamp"}}

\* the order, the uniqueness, the three fixed columns and the optional
\* columns other than git status
ResolvedInOrder ==
    /\ \A i, j \in 1..Len(detail.resolved) :
          i < j => /\ Rank(detail.resolved[i]) <= Rank(detail.resolved[j])
                   /\ detail.resolved[i] # detail.resolved[j]
                   /\ Rank(detail.resolved[i]) = Rank(detail.resolved[j])
                         => detail.resolved[i].col = "Timestamp"
    /\ {"Permissions", "FileSize", "User"} \subseteq Kinds(detail.resolved)
    /\ Column("FileSize", detail.columns.size_format) \in Range(detail.resolved)
    /\ "Inode" \in Kinds(detail.resolved) <=> detail.columns.inode
    /\ "HardLinks" \in Kinds(detail.resolved) <=> detail.columns.links
    /\ "Blocks" \in Kinds(detail.resolved) <=> detail.columns.blocks
    /\ "Group" \in Kinds(detail.resolved) <=> detail.columns.group
    /\ "Modified" \in Stamps(detail.resolved) <=> detail.columns.time_types.modified
    /\ "Created" \in Stamps(detail.resolved) <=> detail.columns.time_types.created
    /\ "Accessed" \in Stamps(detail.resolved) <=> detail.columns.time_types.accessed

\* C13 as stated: every optional column, git status among them, is in the
\* result exactly when its flag in the Columns configuration is set.
C13_ColumnsByFlag ==
    detail.pc = "resolved" =>
        /\ ResolvedInOrder
        /\ "GitStatus" \in Kinds(detail.resolved) <=> detail.columns.git

\* C13: the order, the uniqueness and the fixed columns as stated; every
\* optional column but git status is in the result exactly when its flag is
\* set, and git status exactly when its flag is set and the call has a
\* directory in which a repository was found.
C13_ColumnsInOrder ==
    detail.pc = "resolved" =>
        /\ ResolvedInOrder
        /\ "GitStatus" \in Kinds(detail.resolved) <=>
              (detail.columns.git /\ detail.dir # None /\ Unwrap(detail.dir).repo)

\* C13, its case: every column there is, the three timestamps included
C13_Witness ==
    /\ detail.pc = "resolved"
    /\ Kinds(detail.resolved) = Range(ColumnOrder)
    /\ Stamps(detail.resolved) = {"Modified", "Created", "Accessed"}
    /\ detail.columns.size_format = "BinaryBytes"

(***************************************************************************)
(* C14. The git status column is in a resolved list only if the build has  *)
(* the git feature, the user asked for it and the directory rendered lies  *)
(* in a repository; never for the batch of the command-line files, which   *)
(* has no directory; and where it is, it is the last column.               *)
(***************************************************************************)
\* C14: git status in the resolved list implies feature, request, and a
\* directory with a repository, and it stands last.
C14_GitColumnGated ==
    (detail.pc = "resolved" /\ "GitStatus" \in Kinds(detail.resolved)) =>
        /\ detail.git_feature
        /\ detail.matches.git
        /\ detail.dir # None
        /\ Unwrap(detail.dir).repo
        /\ detail.resolved[Len(detail.resolved)].col = "GitStatus"

\* C14, its case: the column resolved for a directory in a repository,
\* behind a timestamp
C14_Witness ==
    /\ detail.pc = "resolved"
    /\ detail.matches.git
    /\ detail.dir # None
    /\ Len(detail.resolved) > 4
    /\ detail.resolved[Len(detail.resolved)].col = "GitStatus"
    /\ detail.resolved[Len(detail.resolved) - 1].col = "Timestamp"

(***************************************************************************)
(* C15. The time types deduced from the options always have at least one   *)
(* of accessed, modified, created set: with none toggled the result is the *)
(* default, modified alone, so a detail view always has a timestamp.       *)
(***************************************************************************)
\* the user toggled no timestamp, neither by flag nor by --time
NoTimeToggled ==
    /\ detail.matches.time = <<>>
    /\ ~(detail.matches.modified \/ detail.matches.created \/ detail.matches.accessed)

\* C15: the deduced time types are never all unset, they are the default
\* if nothing was toggled, and the resolved list has a timestamp column.
C15_AlwaysATimestamp ==
    /\ detail.pc \in {"columns", "resolved"} =>
          /\ detail.columns.time_types.accessed
                \/ detail.columns.time_types.modified
                \/ detail.columns.time_types.created
          /\ NoTimeToggled => detail.columns.time_types = TimeTypes_default
    /\ detail.pc = "resolved" => "Timestamp" \in Kinds(detail.resolved)

(***************************************************************************)
(* C16. A column is aligned right if it is a number, a size or a count     *)
(* (inode, hard links, file size, blocks) and left otherwise (permissions, *)
(* user, group, timestamps, git status).                                   *)
(***************************************************************************)
\* C16 as stated: git status among the left-aligned columns.
C16_AlignmentGitLeft ==
    detail.pc = "resolved" =>
        \A k \in 1..Len(detail.resolved) :
            detail.aligns[k] =
                IF detail.resolved[k].col \in {"Inode", "HardLinks", "FileSize", "Blocks"}
                THEN "Right" ELSE "Left"

\* C16: right for inode, hard links, file size, blocks and git status, left
\* for permissions, user, group and the timestamps.
C16_Alignment ==
    detail.pc = "resolved" =>
        /\ Len(detail.aligns) = Len(detail.resolved)
        /\ \A k \in 1..Len(detail.resolved) :
              /\ detail.resolved[k].col
                    \in {"Inode", "HardLinks", "FileSize", "Blocks", "GitStatus"}
                       => detail.aligns[k] = "Right"
              /\ detail.resolved[k].col \in {"Permissions", "User", "Group", "Timestamp"}
                       => detail.aligns[k] = "Left"

\* C16, its case: a table with every kind of column, git status last and
\* aligned right
C16_Witness ==
    /\ detail.pc = "resolved"
    /\ Kinds(detail.resolved) = Range(ColumnOrder)
    /\ detail.aligns[Len(detail.aligns)] = "Right"
    /\ detail.aligns[Len(detail.aligns) - 1] = "Left"

(***************************************************************************)
(* C17. Where the grid would be chosen (none of --long, --oneline, --tree) *)
(* the view is Grid with the terminal width if there is one (COLUMNS, or   *)
(* the terminal), and Lines if none can be determined; there is no Grid    *)
(* without a width.                                                        *)
(***************************************************************************)
\* Exa::new has returned the options
Deduced == startup.result # None /\ Unwrap(startup.result).ok

TheView == Unwrap(startup.result).value.view

\* the width the environment gives: COLUMNS if it is set to the number 12,
\* the terminal's if COLUMNS is not set; none otherwise
WidthGiven ==
    IF startup.env.COLUMNS = Some(<<"1", "2">>) THEN Some(12)
    ELSE IF startup.env.COLUMNS = None THEN startup.env.dimensions
    ELSE None

NoWidth == startup.env.COLUMNS = None /\ startup.env.dimensions = None

GridCase ==
    ~startup.matches.long /\ ~startup.matches.oneline /\ ~startup.matches.tree

\* C17: in the grid case the view is Grid with the width given, or Lines if
\* there is no width; and every Grid, alone or inside GridDetails, has the
\* width the environment gives.
C17_GridNeedsWidth ==
    Deduced =>
        /\ (GridCase /\ WidthGiven # None) =>
              (TheView.kind = "Grid" /\ TheView.console_width = Unwrap(WidthGiven))
        /\ (GridCase /\ NoWidth) => TheView.kind = "Lines"
        /\ TheView.kind = "Grid" =>
              (WidthGiven # None /\ TheView.console_width = Unwrap(WidthGiven))
        /\ TheView.kind = "GridDetails" =>
              (WidthGiven # None /\ TheView.grid.console_width = Unwrap(WidthGiven))

\* C17, its case: the grid asked for with no width to be had, Lines deduced
C17_Witness ==
    /\ Deduced
    /\ GridCase
    /\ startup.matches.grid
    /\ NoWidth
    /\ TheView.kind = "Lines"

(***************************************************************************)
(* C18. --long with --grid and no terminal width: the view is the plain    *)
(* Details view with the long columns asked for, never Lines and never     *)
(* Details without columns.                                                *)
(***************************************************************************)
LongGrid == startup.matches.long /\ startup.matches.grid

\* C18 as stated: the fallback is Details with its columns.
C18_FallsBackToDetails ==
    (Deduced /\ LongGrid /\ NoWidth) =>
        /\ TheView.kind = "Details"
        /\ TheView.columns # None

\* C18: the fallback is what the deduction without --long gives: Lines, or
\* with --tree Details without columns; with a width it is GridDetails
\* with the long columns, or with --tree again Details without columns.
C18_FallsBackToLines ==
    (Deduced /\ LongGrid) =>
        /\ (NoWidth /\ ~startup.matches.tree) => TheView.kind = "Lines"
        /\ startup.matches.tree =>
              (TheView.kind = "Details" /\ TheView.columns = None)
        /\ (WidthGiven # None /\ ~startup.matches.tree) =>
              /\ TheView.kind = "GridDetails"
              /\ TheView.details.columns # None
              /\ Unwrap(TheView.details.columns).inode = startup.matches.inode

\* C18, its case: --long --grid --inode with no width, and Lines deduced
C18_Witness ==
    /\ Deduced
    /\ LongGrid
    /\ startup.matches.inode
    /\ NoWidth
    /\ TheView.kind = "Lines"

(***************************************************************************)
(* C19. A successful run exits with 0; the status of an argument or        *)
(* configuration failure (Conflict, Useless, Useless2, FailedParse,        *)
(* FailedGlobPattern) is not zero and differs from the status of a request *)
(* for the help text and from that of a request for the version text.      *)
(***************************************************************************)
Failures == {"Conflict", "Useless", "Useless2", "FailedParse", "FailedGlobPattern"}

\* the status main ends with on a misfire
StatusOf(misfire) == IF legacy THEN exit_older(misfire) ELSE error_code(misfire)

\* the process has ended on a misfire of Exa::new
EndedOn(misfires) ==
    /\ pc = "done"
    /\ startup.result # None
    /\ "misfire" \in DOMAIN Unwrap(startup.result)
    /\ Unwrap(startup.result).misfire \in misfires

\* C19: a run that wrote everything ends with 0, and a failure ends with a
\* status that is neither 0 nor the status of Help nor the status of
\* Version.
C19_ExitStatus ==
    /\ (pc = "done" /\ Deduced /\ io.fail = None) => exit_code = Some(0)
    /\ EndedOn(Failures) =>
          /\ exit_code # Some(0)
          /\ exit_code # Some(StatusOf("Help"))
          /\ exit_code # Some(StatusOf("Version"))

\* a write to the writer has failed in this run
WriterFailed == io.fail # None /\ Unwrap(io.fail).on = "writer"

\* main's line for the error of the run is on stderr
FailurePrinted == \E k \in 1..Len(io.err) : io.err[k].t = "failure"

\* the run has stopped on the error the sink gave, and the sink has taken
\* no write beyond those it accepted before
StoppedOnError ==
    WriterFailed =>
        /\ pc \in {"exit", "done"}
        /\ stack = <<>>
        /\ Unwrap(io.fail).kind = sink.kind
        /\ Len(io.out) = Unwrap(sink.out_limit)

\* how the process ends after that
EndsOnError ==
    (pc = "done" /\ WriterFailed) =>
        IF sink.kind = "BrokenPipe"
        THEN exit_code = Some(0) /\ ~FailurePrinted
        ELSE sink.err_limit = None =>
                /\ exit_code = Some(1)
                /\ io.err # <<>>
                /\ io.err[Len(io.err)] = Failure(Unwrap(io.fail))

(***************************************************************************)
(* C20. Broken output pipe: once a write to the writer has failed, the     *)
(* run has stopped (nothing is left of print_dirs), no step writes to the  *)
(* writer again and the error stays the one the sink gave; a BrokenPipe    *)
(* ends the process with status 0 and no line of failure, any other kind   *)
(* with that error printed on stderr and status 1 (stderr taking the       *)
(* line: the print is unwrapped).                                          *)
(***************************************************************************)
C20_BrokenPipe ==
    /\ [](StoppedOnError /\ EndsOnError)
    /\ [][WriterFailed => (io'.out = io.out /\ io'.fail = io.fail)]_vars

\* a sink that took two writes and then closed: a clean end
C20_Witness ==
    /\ pc = "done"
    /\ WriterFailed
    /\ sink.kind = "BrokenPipe"
    /\ Len(io.out) = 2
    /\ exit_code = Some(0)

\* a sink that failed otherwise: the error is printed, status 1
OtherKindEnd ==
    /\ pc = "done"
    /\ WriterFailed
    /\ sink.kind = "Other"
    /\ Len(io.out) >= 1
    /\ FailurePrinted
    /\ exit_code = Some(1)

\* a writer error of another kind with stderr closed: the print panics
PrintPanics ==
    /\ pc = "done"
    /\ WriterFailed
    /\ sink.kind = "Other"
    /\ exit_code = Some(PanicStatus)

\* the children of the directory of this step that could not be stat-ed
FailingChildren == {e.path : e \in Range(ChildErrors(CurrentDir))}

\* what the step writes as diagnostics: on stderr, and among the output in
\* the older program, which prints them
WrittenErr ==
    IF legacy THEN SelectSeq(Written, LAMBDA item : item.t = "child_error")
    ELSE SubSeq(io'.err, Len(io.err) + 1, Len(io'.err))

\* the blocks of the directory of this step among what the step writes
BlocksWritten ==
    {k \in 1..Len(Written) :
        Written[k].t = "files" /\ Written[k].dir = Some(CurrentDir.path)}

\* the entries of a directory that can be stat-ed, in readdir order
ReaddirFiles(path) ==
    LET ch == Tree[Canon(path)].children
        ok == SelectSeq(ch, LAMBDA n : Tree[Append(Canon(path), n)].stat = "Ok")
    IN  [k \in 1..Len(ok) |-> MakeFile(Append(path, ok[k]))]

\* the step is for a directory with a child that cannot be constructed
AtFailingChild == AtPrintDir /\ FailingChildren # {}

(***************************************************************************)
(* C21. A child that cannot be constructed while a directory is listed is  *)
(* reported with its path and left out, and the listing goes on: the block *)
(* of the directory holds every other child, those before and those after  *)
(* the failing one, filtered and in the order of sort_files, and the run   *)
(* continues with what is left to list.                                    *)
(***************************************************************************)
C21_FailingChildSkipped ==
    [][AtFailingChild =>
          /\ \A c \in FailingChildren :
                \E k \in 1..Len(WrittenErr) :
                    WrittenErr[k].t = "child_error" /\ WrittenErr[k].path = c
          /\ Cardinality(BlocksWritten) = 1
          /\ \A k \in BlocksWritten :
                /\ Range(Written[k].files) \cap FailingChildren = {}
                /\ Written[k].files =
                     PathsOf(RefDirsFirst(options.filter,
                               RefReverse(options.filter,
                                 RefStableSort(options.filter,
                                   RefFilter(options.filter,
                                             ReaddirFiles(CurrentDir.path))))))
          /\ pc' = "dirs"]_vars

\* C21, its case: top/bad is reported, and the block of top has f10, which
\* stands before it in the directory, and f2, which stands after it
C21_Witness ==
    /\ ~legacy
    /\ \E k \in 1..Len(io.err) :
          io.err[k].t = "child_error" /\ io.err[k].path = <<n_top, n_bad>>
    /\ \E k \in 1..Len(io.out) :
          /\ io.out[k].t = "files"
          /\ io.out[k].dir = Some(<<n_top>>)
          /\ <<n_top, n_f10>> \in Range(io.out[k].files)
          /\ <<n_top, n_f2>> \in Range(io.out[k].files)
          /\ <<n_top, n_bad>> \notin Range(io.out[k].files)

\* an option of the long view is on the command line, and --long is not
DetailOnlyWithoutLong ==
    /\ \E o \in DetailOnly : Given(startup.matches, o)
    /\ ~startup.matches.long

\* the command line has been dealt with: the run has begun or the process
\* has ended
Started == pc \notin {"args", "new"}

(***************************************************************************)
(* C22. An option of the long view given without --long is rejected: no    *)
(* view is deduced for such a command line and nothing is listed.          *)
(***************************************************************************)
C22_DetailOnlyRejected ==
    (DetailOnlyWithoutLong /\ Started) => (~Deduced /\ io.out = <<>>)

\* what happens instead: the option is accepted and ignored, the view is one
\* of the short ones and the listing is written
DetailOnlyIgnored ==
    /\ DetailOnlyWithoutLong
    /\ pc = "done"
    /\ Deduced
    /\ TheView.kind \in {"Grid", "Lines"}
    /\ io.out # <<>>
    /\ exit_code = Some(0)

\* --across together with --long or with --oneline
AcrossWithLongOrOneline ==
    startup.matches.across /\ (startup.matches.long \/ startup.matches.oneline)

(***************************************************************************)
(* C23. --across given with --long or with --oneline is rejected: no view  *)
(* is deduced for such a command line.                                     *)
(***************************************************************************)
C23_AcrossRejected ==
    (AcrossWithLongOrOneline /\ Started) => ~Deduced

\* what happens instead with --long: the long view, --across ignored
AcrossIgnored ==
    /\ startup.matches.across
    /\ startup.matches.long
    /\ ~startup.matches.grid
    /\ pc = "done"
    /\ Deduced
    /\ TheView.kind = "Details"
    /\ io.out # <<>>

\* with --oneline the argument parser has ended the process
OnelineAcrossRejected ==
    (startup.matches.across /\ startup.matches.oneline /\ Started) =>
        /\ ~Deduced
        /\ exit_code = Some(UsageStatus)
        /\ io.out = <<>>

\* --level without --recurse and without --tree
LevelAlone ==
    /\ startup.matches.level # None
    /\ ~startup.matches.recurse
    /\ ~startup.matches.tree

\* the process was ended by the argument parser, on a usage error
UsageError ==
    /\ startup.result # None
    /\ "usage" \in DOMAIN Unwrap(startup.result)
    /\ exit_code = Some(UsageStatus)
    /\ io.out = <<>>

\* the deduction has returned this misfire
Misfired(misfire) ==
    /\ startup.result # None
    /\ "misfire" \in DOMAIN Unwrap(startup.result)
    /\ Unwrap(startup.result).misfire = misfire

Packed == packing.pc = "packed"

Selected == Unwrap(packing.result)

\* the entries that stand in column col of c columns
InColumn(col, c) ==
    {i \in 1..Len(packing.widths) :
        ColumnOf(i, Len(packing.widths), c, packing.across) = col}

\* the widest entry of each of c columns
Maxima(c) == [col \in 1..c |-> MaxOf({packing.widths[i] : i \in InColumn(col, c)})]

RECURSIVE SumSeq(_)
SumSeq(s) == IF s = <<>> THEN 0 ELSE Head(s) + SumSeq(Tail(s))

\* the width of the batch laid out in c columns: the column maxima and the
\* gaps between the columns
LaidOutWidth(c) == SumSeq(Maxima(c)) + (c - 1) * GridGap

\* c columns pass the test of the engine: every column with its gap
Fits(c) == SumSeq(Maxima(c)) + c * GridGap <= packing.console_width

(***************************************************************************)
(* C25. Grid packing feasibility: the column count the engine selects      *)
(* never lays the batch out wider than the terminal; and it gives up the   *)
(* grid for one entry per line exactly when not even one column fits.      *)
(***************************************************************************)
C25_PackingFeasible ==
    Packed =>
        /\ Selected.kind = "Grid" =>
              /\ Selected.columns \in 1..Len(packing.widths)
              /\ LaidOutWidth(Selected.columns) <= packing.console_width
        /\ (Selected.kind = "Lines") <=> ~Fits(1)

\* C25, its case: a batch that does not fit in one row, in a grid of more
\* than one column that one more column would make too wide
C25_Witness ==
    /\ Packed
    /\ Selected.kind = "Grid"
    /\ Selected.columns > 1
    /\ Selected.columns < Len(packing.widths)
    /\ LaidOutWidth(Selected.columns + 1) > packing.console_width

\* the fallback: a batch whose widest entry the terminal cannot take
PackingFallsBack ==
    /\ Packed
    /\ Selected.kind = "Lines"
    /\ Len(packing.widths) > 1
    /\ packing.console_width > 0

\* the count the upward search stops at
Upward == ScanUp(packing.widths, packing.console_width, packing.across, 1)

\* no column count greater than the selected one fits
NoneGreaterFits ==
    (Packed /\ Fits(1)) =>
        /\ Selected.kind = "Grid"
        /\ Fits(Selected.columns)
        /\ \A c \in (Selected.columns + 1)..Len(packing.widths) : ~Fits(c)

\* C26 as it was stated: and the upward search that stops at the first
\* count that does not fit selects the same count
C26_ScansAgree ==
    /\ NoneGreaterFits
    /\ (Packed /\ Fits(1)) => Selected.columns = Upward

(***************************************************************************)
(* C26. Grid packing optimality: for a feasible instance no column count   *)
(* greater than the selected one fits, which is what the search downward   *)
(* from N gives; the search upward from 1 that stops at the first count    *)
(* that does not fit never selects more, and may select less.              *)
(***************************************************************************)
C26_PackingOptimal ==
    /\ NoneGreaterFits
    /\ (Packed /\ Fits(1)) => Upward <= Selected.columns

\* C26, its case: two columns do not fit and three do, so the two searches
\* part
C26_Witness ==
    /\ Packed
    /\ Fits(1)
    /\ ~Fits(2)
    /\ Selected.kind = "Grid"
    /\ Selected.columns = 3
    /\ Upward = 1

\* the children of a directory as the view is handed them: those that can
\* be stat-ed, filtered and sorted
RefChildren(path) ==
    RefDirsFirst(options.filter,
        RefReverse(options.filter,
            RefStableSort(options.filter,
                RefFilter(options.filter, ReaddirFiles(path)))))

\* its child directories that can be opened, in that order
RefChildDirPaths(path) ==
    PathsOf(SelectSeq(RefChildren(path),
                      LAMBDA f : f.is_dir /\ Tree[Canon(f.path)].readable))

\* the controller goes on into the child directories of the directory
RefDescends(path) ==
    /\ FlatRecurse
    /\ \/ options.dir_action.max_depth = None
       \/ Components(path) + 1 < Unwrap(options.dir_action.max_depth)

\* the directories in depth-first pre-order: a directory, then all that is
\* below its child directories, then its next sibling
RECURSIVE RefPreOrder(_)
RefPreOrder(paths) ==
    IF paths = <<>> THEN <<>>
    ELSE <<Head(paths)>>
            \o (IF RefDescends(Head(paths))
                THEN RefPreOrder(RefChildDirPaths(Head(paths))) ELSE <<>>)
            \o RefPreOrder(Tail(paths))

\* the named directories and the named files, in the order of the arguments
NamedDirs == SelectSeq(options.paths, ToDirBatch)

NamedFiles == SelectSeq(options.paths, ToFileBatch)

\* the directories of the blocks written, and those of the headings, in the
\* order of the output
BlockDirs ==
    LET bs == SelectSeq(io.out, LAMBDA item : item.t = "files" /\ item.dir # None)
    IN  [k \in 1..Len(bs) |-> Unwrap(bs[k].dir)]

HeadingDirs ==
    LET hs == SelectSeq(io.out, LAMBDA item : item.t = "heading")
    IN  [k \in 1..Len(hs) |-> hs[k].path]

\* where the file batch stands in the output
BatchPositions ==
    {k \in 1..Len(io.out) : io.out[k].t = "files" /\ io.out[k].dir = None}

(***************************************************************************)
(* C27. Output ordering of a run: the file batch is rendered first and     *)
(* once (not at all when no file was named); then come the named           *)
(* directories in the order of the arguments, each with the blocks of all  *)
(* that is below its child directories, in their sorted order, before its  *)
(* next sibling (depth-first pre-order); and a heading is followed         *)
(* immediately by the filtered and sorted children of its directory.       *)
(***************************************************************************)
C27_OutputOrder ==
    pc = "done" =>
        LET visited == RefPreOrder(NamedDirs)
        IN  /\ BatchPositions = IF NamedFiles # <<>> THEN {1} ELSE {}
            /\ NamedFiles # <<>> => io.out[1].files = NamedFiles
            /\ BlockDirs = SelectSeq(visited, LAMBDA d : RefChildren(d) # <<>>)
            /\ \/ HeadingDirs = visited
               \/ visited # <<>> /\ HeadingDirs = Tail(visited)
            /\ \A k \in 1..Len(io.out) :
                  (io.out[k].t = "heading" /\ RefChildren(io.out[k].path) # <<>>) =>
                      /\ k < Len(io.out)
                      /\ io.out[k + 1] =
                            [t |-> "files", dir |-> Some(io.out[k].path),
                             files |-> PathsOf(RefChildren(io.out[k].path))]

\* C27, its case: a file and two directories named, the first with two
\* child directories that are gone into before the second is listed
C27_Witness ==
    /\ pc = "done"
    /\ options.paths = <<(<<n_top>>), (<<n_a_txt>>)>>
    /\ FlatRecurse
    /\ options.dir_action.max_depth = None
    /\ options.filter.show_invisibles
    /\ ~options.filter.reverse
    /\ BatchPositions = {1}
    /\ BlockDirs = << <<n_top>>, <<n_top, n_hdir>>, <<n_top, n_mid>>,
                      <<n_top, n_mid, n_low>> >>

\* COLUMNS is set to a text that is no number
BadColumns ==
    /\ startup.cli = "Matches"
    /\ startup.env.COLUMNS # None
    /\ parse(Unwrap(startup.env.COLUMNS)) = None

\* the flags make View::deduce ask for the width: every combination but
\* --long without --grid
NeedsWidth == ~startup.matches.long \/ startup.matches.grid

\* Exa::new has come to the deduction of the view
ViewDeduced ==
    /\ startup.result # None
    /\ "exited" \notin DOMAIN Unwrap(startup.result)

(***************************************************************************)
(* C28. With COLUMNS set to a text that is no number, the deduction of the *)
(* view returns Misfire::FailedParse for every combination of flags that   *)
(* needs a width, --long with --grid included, and never panics.           *)
(***************************************************************************)
C28_BadColumnsFailedParse ==
    (BadColumns /\ NeedsWidth /\ ViewDeduced) =>
        /\ "panicked" \notin DOMAIN Unwrap(startup.result)
        /\ Misfired("FailedParse")

\* what happens with --long and --grid in the program of src/exa.rs: the
\* error runs into unreachable!() and the process panics
BadColumnsPanic ==
    /\ BadColumns
    /\ startup.matches.long
    /\ startup.matches.grid
    /\ ~legacy
    /\ pc = "done"
    /\ "panicked" \in DOMAIN Unwrap(startup.result)
    /\ exit_code = Some(PanicStatus)

\* without --long, and in the older program with it, the error is returned
BadColumnsReturned ==
    (BadColumns /\ NeedsWidth /\ ViewDeduced
        /\ (legacy \/ ~(startup.matches.long /\ startup.matches.grid))) =>
        Misfired("FailedParse")

\* the recurse descriptor of the deduced view, None when the view has none
ViewRecurse ==
    IF TheView.kind = "Details" THEN TheView.recurse
    ELSE IF TheView.kind = "GridDetails" THEN TheView.details.recurse
    ELSE IF "recurse" \in DOMAIN TheView THEN TheView.recurse
    ELSE None

TreeUnderHeadings ==
    /\ ~legacy
    /\ startup.matches.tree
    /\ startup.matches.recurse
    /\ pc = "done"
    /\ Deduced
    /\ ~Unwrap(startup.result).value.dir_action.tree
    /\ TheView.kind = "Details"
    /\ \E k \in 1..Len(io.out) : io.out[k].t = "heading"

\* the older program, and the program of src/exa.rs without --recurse
TreeAgreementElsewhere ==
    (Deduced /\ startup.matches.tree /\ (legacy \/ ~startup.matches.recurse)) =>
        /\ Unwrap(startup.result).value.dir_action.kind = "Recurse"
        /\ Unwrap(startup.result).value.dir_action.tree

\* the tails of the paths of the file system: what may stand below a named
\* directory
Suffixes == UNION {{SubSeq(p, i, Len(p)) : i \in 1..Len(p) + 1} : p \in DOMAIN Tree}

\* the directory n \o s is reached from the named directory n: every
\* directory on the way is a child that survived the hidden filter and could
\* be opened, below a parent the controller goes on from
ChainHolds(n, s) ==
    \A k \in 1..Len(s) :
        LET parent == n \o SubSeq(s, 1, k - 1)
            child  == n \o SubSeq(s, 1, k)
        IN  /\ RefDescends(parent)
            /\ Canon(child) \in DOMAIN Tree
            /\ Tree[Canon(child)].kind = "dir"
            /\ Tree[Canon(child)].stat = "Ok"
            /\ Tree[Canon(child)].readable
            /\ options.filter.show_invisibles \/ s[k][1] # "."

Reaches(n, d) == \E s \in Suffixes : d = n \o s /\ ChainHolds(n, s)

\* the directories reached from some named directory
ReachedDirs ==
    UNION {{NamedDirs[k] \o s : s \in {t \in Suffixes : ChainHolds(NamedDirs[k], t)}} :
              k \in 1..Len(NamedDirs)}

\* how many blocks the output has for a directory, and how many it is due:
\* one for every occurrence of a named directory it is reached from
BlocksOf(d) == Cardinality({k \in 1..Len(BlockDirs) : BlockDirs[k] = d})

BlocksDue(d) == Cardinality({k \in 1..Len(NamedDirs) : Reaches(NamedDirs[k], d)})

\* a directory below a named one, with a hidden name
HiddenBelow(d) ==
    \E k \in 1..Len(NamedDirs), s \in Suffixes :
        /\ d = NamedDirs[k] \o s
        /\ \E j \in 1..Len(s) : s[j][1] = "."

ExactBlocks ==
    /\ \A d \in Range(BlockDirs) \cup ReachedDirs : BlocksOf(d) = BlocksDue(d)
    /\ ~options.filter.show_invisibles =>
          \A d \in Range(BlockDirs) : d \in Range(NamedDirs) \/ ~HiddenBelow(d)

(***************************************************************************)
(* C30. The traversal terminates, and at its end the output has one block  *)
(* for every occurrence of a named directory and one for every directory   *)
(* reached from a named directory through children that each survived the  *)
(* hidden filter, below parents that each satisfied the recursion          *)
(* condition; there is no block for any other directory, and none for a    *)
(* hidden child directory when hidden entries are not shown.               *)
(***************************************************************************)
C30_TerminatesWithExactBlocks ==
    /\ <>(pc = "done")
    /\ [](pc = "done" => ExactBlocks)

\* C30, its case: a directory named twice and gone into twice, its hidden
\* child directory never listed
C30_Witness ==
    /\ pc = "done"
    /\ options.paths = <<(<<n_top>>), (<<n_top>>)>>
    /\ FlatRecurse
    /\ options.dir_action.max_depth = None
    /\ ~options.filter.show_invisibles
    /\ BlocksOf(<<n_top>>) = 2
    /\ BlocksOf(<<n_top, n_mid, n_low>>) = 2
    /\ BlocksOf(<<n_top, n_hdir>>) = 0
    /\ ExactBlocks

\* the blocks at the end of a run, under every order of the children
ExactBlocksAtEnd == pc = "done" => ExactBlocks

\* the depth limit cuts the chain: a directory below the limit has no block
DepthCutsChain ==
    /\ pc = "done"
    /\ FlatRecurse
    /\ options.dir_action.max_depth = Some(3)
    /\ options.paths = <<(<<n_top>>)>>
    /\ BlocksOf(<<n_top, n_mid>>) = 1
    /\ BlocksOf(<<n_top, n_mid, n_low>>) = 0

====
